---- MODULE Spec2Model ----
(***************************************************************************)
(* A model of the Insta-Downloader backend (Backend/src): the verified     *)
(* fetcher (services/downloader.rs), the content extractor                 *)
(* (services/extractor.rs), the per-kind download handlers                 *)
(* (handlers/*.rs) and the routing layer (routes/download.rs).             *)
(*                                                                         *)
(* Each component has its own group of variables and its own               *)
(* specification; a specification leaves the other groups at their idle    *)
(* values.                                                                 *)
(***************************************************************************)
EXTENDS Integers, Sequences, FiniteSets, TLC

VARIABLES
    \* ---- services/downloader.rs: download_media_with_retry / _with_client
    f_pc,            \* control point of the fetch
    retry_count,     \* downloader.rs:34
    last_error,      \* downloader.rs:35 (None or the error of a failed attempt)
    backoff,         \* downloader.rs:56, the pre-jitter wait last computed
    sleep_time,      \* downloader.rs:58, the wait last computed, jitter included
    c_ret,           \* value returned by the last download_media_with_client call
    f_result,        \* value returned by download_media_with_retry
    f_calls,         \* number of download_media_with_client calls made
    f_sleeps,        \* number of sleeps performed (downloader.rs:63)
    content_length,  \* downloader.rs:90, declared length or None
    file,            \* size in bytes of the destination file on disk, or NoFile
    downloaded,      \* downloader.rs:103
    \* ---- services/extractor.rs: extract_post_media, extract_stories
    x_pc,            \* control point of the extractor
    x_fn,            \* the strategy running: "post" or "stories"
    attempt,         \* extractor.rs:155 / 475, the index of the outer retry loop
    x_once,          \* value returned by the last *_once call
    x_ret,           \* value returned by the extractor to its caller
    x_calls,         \* number of *_once calls made
    x_paused,        \* seconds spent in the pauses between attempts (extractor.rs:161 / 481)
    x_scripts,       \* the in-page scripts executed by the running *_once call
    reel_media,      \* extractor.rs:220, the media reel_script returned in this attempt
    meta_dom,        \* the metadata of the page extract_media_from_metadata reads
    result,          \* extractor.rs:547, the items collected by extract_stories_once
    story_count,     \* extractor.rs:570
    nav,             \* number of times the next-story control was clicked
    p_stories,       \* the page: the stories it shows, in order
    p_back,          \* the page: where "next" leads after the last story (0: no control)
    p_pos,           \* the page: the story currently shown
    \* ---- services/downloader.rs: download_with_ytdlp
    t_pc,            \* control point of the external-tool call
    t_is_story,      \* downloader.rs:144, the is_story argument of the call
    t_args,          \* downloader.rs:155-173, the arguments yt-dlp was run with
    t_ret,           \* value returned by the last download_with_ytdlp call
    t_spawns,        \* number of times the call spawned yt-dlp (downloader.rs:177)
    t_probes,        \* number of times the call ran the probe (downloader.rs:204)
    env_ytdlp,       \* the host: yt-dlp is "present", "absent" or "noexec"
    env_which,       \* the host: the which command is "present" or "absent"
    \* ---- routes/download.rs and handlers/*.rs: one request
    h_pc,            \* control point of the request
    entry,           \* the function the request enters
    url,             \* the url field of the request, or None
    handler,         \* the handler handle_download dispatched to
    session,         \* the browser-automation session: "none", "open" or "closed"
    response,        \* the message the handler returned, or None
    video_src,       \* reel.rs:87
    attempts,        \* reel.rs:88
    content_type,    \* routes/download.rs:69
    media_items,     \* routes/download.rs:71
    error_message,   \* routes/download.rs:70
    h_log,           \* the strategies the request has attempted, in order
    scan_count,      \* story.rs:39, story_ files the folder scan found
    reel_file,       \* reel.rs:201-211, the file the direct fetch of a reel wrote
    page_signals,    \* routes/download.rs:125-163, what the page of the preview shows
    poll_vals,       \* reel.rs:92-187, what the four methods of the last poll returned
    poll_slept,      \* reel.rs:190, the milliseconds slept in the dynamic-wait loop
    use_ytdlp_first, \* reel.rs:15, the field of the ReelDownloadRequest
    \* ---- handlers/story.rs and handlers/post.rs: the batch of downloads
    b_n,             \* number of media items of the batch
    b_items,         \* story.rs:101 / post.rs:72, the media items the loop iterates
    filenames,       \* story.rs:103 / post.rs:75, the filename of each spawned task
    tasks,           \* state of the download task of each item
    permits,         \* permits the semaphore has left
    success_count,   \* story.rs:115 / post.rs:90
    \* ---- the output folders of the download requests the server is handling
    clock,           \* Utc::now().timestamp(), the second the clock shows
    r_pc,            \* position of each request
    r_url,           \* the URL each request carries
    r_handler,       \* the function that handles each request
    r_folder,        \* story.rs:23 / reel.rs:22 / post.rs:24, folder_name of each
    writes,          \* the files written, each with the request that wrote it
    \* ---- services/extractor.rs: create_browser_client
    wd_pc,           \* position in create_browser_client
    wd_env,          \* what each automation endpoint answers to a connection
    wd_tried,        \* the endpoints the loop has tried, in order
    wd_last_error,   \* extractor.rs:105, last_error
    wd_ret,          \* the value create_browser_client returns
    \* ---- services/extractor.rs: extract_reel_video_with_headless_chrome
    hc_pc,           \* position in extract_reel_video_with_headless_chrome
    hc_env,          \* what the headless browser, the network and the disk do
    hc_file,         \* the size of the file at folder_name/reel_video.mp4
    hc_ret           \* the value the function returns

fetchVars == << f_pc, retry_count, last_error, backoff, sleep_time, c_ret, f_result,
                f_calls, f_sleeps, content_length, file, downloaded >>

extractVars == << x_pc, x_fn, attempt, x_once, x_ret, x_calls, x_paused, x_scripts, reel_media,
                  meta_dom,
                  result, story_count, nav, p_stories, p_back, p_pos >>

toolVars == << t_pc, t_is_story, t_args, t_ret, t_spawns, t_probes, env_ytdlp, env_which >>

handlerVars == << h_pc, entry, url, handler, session, response, video_src,
                  attempts, content_type, media_items, error_message, h_log,
                  scan_count, reel_file, page_signals, poll_vals, poll_slept,
                  use_ytdlp_first >>

batchVars == << b_n, b_items, filenames, tasks, permits, success_count >>

folderVars == << clock, r_pc, r_url, r_handler, r_folder, writes >>

connectVars == << wd_pc, wd_env, wd_tried, wd_last_error, wd_ret >>

headlessVars == << hc_pc, hc_env, hc_file, hc_ret >>

vars == << fetchVars, extractVars, toolVars, handlerVars, batchVars, folderVars,
           connectVars, headlessVars >>

\* what an action of one component leaves alone
notFetch == << extractVars, toolVars, handlerVars, batchVars, folderVars,
               connectVars, headlessVars >>
notExtract == << fetchVars, toolVars, handlerVars, batchVars, folderVars,
               connectVars, headlessVars >>
notTool == << fetchVars, extractVars, handlerVars, batchVars, folderVars,
            connectVars, headlessVars >>

None == "None"
\* Option<u64>::None of the declared content length, and a file that does not exist
NoLen == -1
NoFile == -1

\* Result values: tag is "None" (nothing returned yet), "Ok" or "Err"
NoRet == [tag |-> "None", err |-> None]
RetOk == [tag |-> "Ok", err |-> None]
RetErr(e) == [tag |-> "Err", err |-> e]
NoResult == [tag |-> "None", err |-> None, cause |-> None]

(***************************************************************************)
(* Bounds of the model.                                                    *)
(***************************************************************************)
\* largest body, in bytes, an origin serves in the fetcher model
MaxBytes == 2

(***************************************************************************)
(* services/downloader.rs                                                  *)
(***************************************************************************)
MAX_RETRY == 5
BASE_BACKOFF_MS == 300

Lengths == {NoLen} \cup (0 .. MaxBytes)

\* downloader.rs:45, the loop condition of download_media_with_retry
RetryGuard_Inclusive(rc) == rc <= MAX_RETRY
RetryGuard(rc) == rc < MAX_RETRY

\* downloader.rs:56
ComputeBackoff(rc) == BASE_BACKOFF_MS * (2 ^ rc)

\* downloader.rs:126-136, the verdict of the post-write verification
VerifyFile_NoEmptyCheck(file_size, len) ==
    IF len /= NoLen /\ file_size /= len
    THEN RetErr("File size mismatch")
    ELSE RetOk
VerifyFile(file_size, len) ==
    IF len /= NoLen /\ file_size /= len
    THEN RetErr("File size mismatch")
    ELSE IF file_size = 0
         THEN RetErr("Downloaded file is empty")
         ELSE RetOk

\* downloader.rs:57: the jitter is round(backoff * r * 0.3) for a random r
\* of [0, 1): a whole number from 0 to 30% of the backoff; the model draws
\* the least, a middle and the greatest of them
MaxJitter(b) == (b * 3) \div 10
Jitters(b) == {0, MaxJitter(b) \div 2, MaxJitter(b)}

\* downloader.rs:46-51: the attempt results that take the Err arm, whatever
\* error they carry
CountsAsFailure_TransportOnly(ret) ==
    ret.tag = "Err" /\ ret.err \in {"HTTP request failed", "HTTP error"}
CountsAsFailure(ret) == ret.tag = "Err"

FetchInit ==
    /\ f_pc = "entry"
    /\ retry_count = 0
    /\ last_error = None
    /\ backoff = 0
    /\ sleep_time = 0
    /\ c_ret = NoRet
    /\ f_result = NoResult
    /\ f_calls = 0
    /\ f_sleeps = 0
    /\ content_length = NoLen
    /\ file \in {NoFile, 0, 1}
    /\ downloaded = 0

FetchIdle ==
    /\ f_pc = "idle"
    /\ retry_count = 0
    /\ last_error = None
    /\ backoff = 0
    /\ sleep_time = 0
    /\ c_ret = NoRet
    /\ f_result = NoResult
    /\ f_calls = 0
    /\ f_sleeps = 0
    /\ content_length = NoLen
    /\ file = NoFile
    /\ downloaded = 0

\* download_media_with_client returns Err(e)
ClientErr(e) ==
    /\ c_ret' = RetErr(e)
    /\ f_pc' = "match"

\* downloader.rs:38-43: create the parent directory of the destination
download_media_with_retry_mkdir ==
    /\ UNCHANGED notFetch
    /\ f_pc = "entry"
    /\ \E created \in BOOLEAN :
          IF created
          THEN /\ f_pc' = "loop"
               /\ f_result' = f_result
          ELSE /\ f_pc' = "done"
               /\ f_result' = [tag |-> "Err", err |-> "Failed to create directory",
                               cause |-> None]
    /\ UNCHANGED << retry_count, last_error, backoff, sleep_time, c_ret, f_calls, f_sleeps,
                    content_length, file, downloaded >>

\* downloader.rs:45-46 and 68-69: the loop test; a new attempt, or the final error
download_media_with_retry_loop ==
    /\ UNCHANGED notFetch
    /\ f_pc = "loop"
    /\ IF RetryGuard(retry_count)
       THEN /\ f_pc' = "send"
            /\ f_calls' = f_calls + 1
            /\ f_result' = f_result
       ELSE /\ f_pc' = "done"
            /\ f_result' = [tag |-> "Err", err |-> "Failed after retries",
                            cause |-> last_error]
            /\ f_calls' = f_calls
    /\ UNCHANGED << retry_count, last_error, backoff, sleep_time, c_ret, f_sleeps,
                    content_length, file, downloaded >>

\* downloader.rs:75-93: send the request, check the status, read the declared length
download_media_with_client_send ==
    /\ UNCHANGED notFetch
    /\ f_pc = "send"
    /\ \/ /\ ClientErr("HTTP request failed")
          /\ UNCHANGED content_length
       \/ /\ ClientErr("HTTP error")
          /\ UNCHANGED content_length
       \/ /\ \E len \in Lengths : content_length' = len
          /\ f_pc' = "create"
          /\ UNCHANGED c_ret
    /\ UNCHANGED << retry_count, last_error, backoff, sleep_time, f_result, f_calls, f_sleeps,
                    file, downloaded >>

\* downloader.rs:96-103: File::create truncates the destination
download_media_with_client_create ==
    /\ UNCHANGED notFetch
    /\ f_pc = "create"
    /\ \/ /\ ClientErr("Failed to create file")
          /\ UNCHANGED << file, downloaded >>
       \/ /\ file' = 0
          /\ downloaded' = 0
          /\ f_pc' = "stream"
          /\ UNCHANGED c_ret
    /\ UNCHANGED << retry_count, last_error, backoff, sleep_time, f_result, f_calls, f_sleeps,
                    content_length >>

\* downloader.rs:104-119: one step of the streaming loop
download_media_with_client_stream ==
    /\ UNCHANGED notFetch
    /\ f_pc = "stream"
    /\ \/ /\ f_pc' = "verify"                       \* stream.next() is None
          /\ UNCHANGED << c_ret, file, downloaded >>
       \/ /\ ClientErr("Error while downloading file")
          /\ UNCHANGED << file, downloaded >>
       \/ /\ ClientErr("Failed to write data to file")
          /\ UNCHANGED << file, downloaded >>
       \/ /\ \E chunk \in 1 .. MaxBytes :
                /\ downloaded + chunk <= MaxBytes
                /\ file' = file + chunk
                /\ downloaded' = downloaded + chunk
          /\ UNCHANGED << f_pc, c_ret >>
    /\ UNCHANGED << retry_count, last_error, backoff, sleep_time, f_result, f_calls, f_sleeps,
                    content_length >>

\* downloader.rs:121-136: re-read the metadata and verify the size
download_media_with_client_verify ==
    /\ UNCHANGED notFetch
    /\ f_pc = "verify"
    /\ \/ ClientErr("Failed to read file metadata")
       \/ LET v == VerifyFile(file, content_length) IN
          /\ c_ret' = v
          /\ f_pc' = "match"
    /\ UNCHANGED << retry_count, last_error, backoff, sleep_time, f_result, f_calls, f_sleeps,
                    content_length, file, downloaded >>

\* downloader.rs:46-61: match on the attempt's result
download_media_with_retry_match ==
    /\ UNCHANGED notFetch
    /\ f_pc = "match"
    /\ IF ~CountsAsFailure(c_ret)
       THEN /\ f_result' = [tag |-> "Ok", err |-> None, cause |-> None]
            /\ f_pc' = "done"
            /\ UNCHANGED << retry_count, last_error, backoff, sleep_time >>
       ELSE /\ retry_count' = retry_count + 1
            /\ last_error' = c_ret.err
            /\ backoff' = ComputeBackoff(retry_count + 1)
            /\ \E jitter \in Jitters(ComputeBackoff(retry_count + 1)) :
                  sleep_time' = ComputeBackoff(retry_count + 1) + jitter
            /\ f_pc' = "sleep"
            /\ UNCHANGED f_result
    /\ UNCHANGED << c_ret, f_calls, f_sleeps, content_length, file, downloaded >>

\* downloader.rs:63
download_media_with_retry_sleep ==
    /\ UNCHANGED notFetch
    /\ f_pc = "sleep"
    /\ f_sleeps' = f_sleeps + 1
    /\ f_pc' = "loop"
    /\ UNCHANGED << retry_count, last_error, backoff, sleep_time, c_ret, f_result, f_calls,
                    content_length, file, downloaded >>

FetchNext ==
    \/ download_media_with_retry_mkdir
    \/ download_media_with_retry_loop
    \/ download_media_with_client_send
    \/ download_media_with_client_create
    \/ download_media_with_client_stream
    \/ download_media_with_client_verify
    \/ download_media_with_retry_match
    \/ download_media_with_retry_sleep

(***************************************************************************)
(* Strings (Rust str::starts_with / ends_with / contains, and the same     *)
(* methods of JavaScript strings)                                          *)
(***************************************************************************)
StartsWith(s, p) == Len(s) >= Len(p) /\ SubSeq(s, 1, Len(p)) = p
EndsWith(s, p) == Len(s) >= Len(p) /\ SubSeq(s, Len(s) - Len(p) + 1, Len(s)) = p
Contains(s, p) == \E i \in 1 .. (Len(s) - Len(p) + 1) : SubSeq(s, i, i + Len(p) - 1) = p

(***************************************************************************)
(* services/extractor.rs                                                   *)
(***************************************************************************)
MAX_EXTRACTION_RETRIES == 2
PAUSE_SECS == 2
max_stories == 20

\* longest run of stories a page holds in the extractor model
MaxPageStories == 3
\* most clicks on the next-story control the model follows in one attempt
MaxNav == 40

\* URLs that the elements and the metadata of a page may hold
V_MP4 == "https://c/v.mp4"
V_MP4Q == "https://c/v.mp4?s=1"
V_BLOB == "blob:https://i/1"
I_JPG == "https://c/i.jpg"
I_JPG2 == "https://c/i2.jpg"
I_DATA == "data:image/png"

Item(u, t) == [url |-> u, type |-> t]
\* a script that returns null
NullItem == Item("", "")

XNone == [tag |-> "None", items |-> << >>, err |-> None]
XOk(items) == [tag |-> "Ok", items |-> items, err |-> None]
XErr(e) == [tag |-> "Err", items |-> << >>, err |-> e]

IsBlob(u) == StartsWith(u, "blob:")
\* the JavaScript test  src.match(/\.mp4($|\?)/)
Mp4Match(u) == EndsWith(u, ".mp4") \/ Contains(u, ".mp4?")

\* an img element: its src, its srcset as << url, width >> candidates, and
\* whether it passes the test  alt includes "photo" or width > 150
NoImg == [src |-> "", srcset |-> << >>, wide |-> FALSE]
Imgs == { NoImg,
          [src |-> I_JPG, srcset |-> << >>, wide |-> TRUE],
          [src |-> I_JPG, srcset |-> << <<I_JPG, 320>>, <<I_JPG2, 1080>> >>, wide |-> TRUE],
          [src |-> I_DATA, srcset |-> << >>, wide |-> TRUE],
          [src |-> I_JPG, srcset |-> << >>, wide |-> FALSE] }

\* extractor.rs:276-290 / 509-523: the candidate of a srcset with the highest
\* width ("" when no candidate carries a width)
RECURSIVE HighestQuality(_, _, _)
HighestQuality(sets, bestUrl, bestWidth) ==
    IF sets = << >> THEN bestUrl
    ELSE IF Head(sets)[2] > bestWidth
         THEN HighestQuality(Tail(sets), Head(sets)[1], Head(sets)[2])
         ELSE HighestQuality(Tail(sets), bestUrl, bestWidth)

\* extractor.rs:247-251: push() of the post script
JsPush(media, u, t) ==
    IF u /= "" /\ ~IsBlob(u) /\ ~(\E i \in 1 .. Len(media) : media[i].url = u)
    THEN Append(media, Item(u, t))
    ELSE media

\* extractor.rs:265-304: what the post script pushes for one img element
PushImg(media, img) ==
    IF img.src /= "" /\ ~StartsWith(img.src, "data:") /\ img.wide
    THEN IF img.srcset /= << >>
         THEN IF HighestQuality(img.srcset, "", 0) /= ""
              THEN JsPush(media, HighestQuality(img.srcset, "", 0), "image")
              ELSE JsPush(media, img.srcset[Len(img.srcset)][1], "image")
         ELSE JsPush(media, img.src, "image")
    ELSE media

\* extractor.rs:172-204: reel_script, on the src of the first video element
\* and of the first  video > source  element ("" when absent)
ReelScript(videoSrc, sourceSrc) ==
    IF videoSrc /= "" /\ ~IsBlob(videoSrc) /\ Mp4Match(videoSrc)
    THEN << Item(videoSrc, "video") >>
    ELSE IF sourceSrc /= "" /\ ~IsBlob(sourceSrc) /\ Mp4Match(sourceSrc)
         THEN << Item(sourceSrc, "video") >>
         ELSE << >>

\* extractor.rs:221-230: the filter applied to reel_script's media
ReelFilter(media) ==
    SelectSeq(media, LAMBDA m : m.url /= "" /\ ~IsBlob(m.url) /\ EndsWith(m.url, ".mp4"))

\* the DOM that post_script reads
PostDoms == [ article : BOOLEAN,
              video : {"", V_BLOB, V_MP4},
              img : Imgs,
              ldContent : {"", V_MP4Q, V_BLOB},
              ldVideo : {"", V_MP4},
              ogImage : {"", I_JPG},
              ogVideo : {"", V_MP4Q},
              slides : { << >>,
                         << [video |-> V_MP4Q, img |-> NoImg] >>,
                         << [video |-> V_BLOB,
                             img |-> [src |-> I_JPG2, srcset |-> << >>, wide |-> TRUE]] >> } ]

\* extractor.rs:373-422: the carousel loop, one click per further slide
RECURSIVE CarouselPush(_, _)
CarouselPush(media, slides) ==
    IF slides = << >> THEN media
    ELSE CarouselPush(PushImg(JsPush(media, Head(slides).video, "video"), Head(slides).img),
                      Tail(slides))

\* extractor.rs:243-430: post_script
PostScript(dom) ==
    IF ~dom.article THEN << >>
    ELSE LET m1 == JsPush(<< >>, dom.video, "video")
             m2 == PushImg(m1, dom.img)
             m3 == JsPush(m2, dom.ldContent,
                          IF Contains(dom.ldContent, ".mp4") THEN "video" ELSE "image")
             m4 == JsPush(m3, dom.ldVideo, "video")
             m5 == JsPush(m4, dom.ogImage, "image")
             m6 == JsPush(m5, dom.ogVideo, "video")
         IN CarouselPush(m6, dom.slides)

\* extractor.rs:446-456: the filter applied to post_script's media
PostFilter_KeepBlob(media) ==
    SelectSeq(media, LAMBDA m : m.url /= "")
PostFilter(media) ==
    SelectSeq(media, LAMBDA m : m.url /= "" /\ ~IsBlob(m.url))

\* one story of a page: the src of its video element, the srcset of its
\* img[srcset] element and the src of its img[src] element
StoryKinds == { [video |-> V_MP4, srcset |-> << >>, src |-> ""],
                [video |-> V_BLOB, srcset |-> << >>, src |-> I_JPG],
                [video |-> V_BLOB, srcset |-> << >>, src |-> ""],
                [video |-> "", srcset |-> << <<I_JPG, 640>>, <<I_JPG2, 1080>> >>,
                 src |-> I_JPG] }
NoStory == [video |-> "", srcset |-> << >>, src |-> ""]

\* extractor.rs:498-539: extractCurrentStory()
StoryScript(st) ==
    IF st.video /= "" /\ ~IsBlob(st.video)
    THEN Item(st.video, "video")
    ELSE IF st.srcset /= << >> /\ HighestQuality(st.srcset, "", 0) /= ""
         THEN Item(HighestQuality(st.srcset, "", 0), "image")
         ELSE IF st.src /= "" /\ ~StartsWith(st.src, "data:")
              THEN Item(st.src, "image")
              ELSE NullItem

\* extractor.rs:549-556 / 596-604: whether the story script's value is collected
StoryUsable_AnyUrl(it) == it.url /= ""
StoryUsable(it) == it.url /= "" /\ ~IsBlob(it.url)

\* the story the page shows ("no story" on a page without stories)
CurrentStory == IF p_pos = 0 THEN NoStory ELSE p_stories[p_pos]
\* extractor.rs:559-566: whether the page shows a next-story control
HasMore == p_pos > 0 /\ (p_pos < Len(p_stories) \/ p_back > 0)
NextPos == IF p_pos < Len(p_stories) THEN p_pos + 1 ELSE p_back

\* extractor.rs:574, the loop condition of the advance loop
StoryLoopGuard_Inclusive(sc) == sc <= max_stories
StoryLoopGuard(sc) == sc < max_stories

\* extractor.rs:157-164 / 477-484: "return" or "retry" after an attempt
RetryDecision_EmptyIsSuccess(once, att) ==
    IF once.tag = "Ok" THEN "return"
    ELSE IF att < MAX_EXTRACTION_RETRIES THEN "retry" ELSE "return"
RetryDecision_ErrReturns(once, att) ==
    IF once.tag = "Err" \/ once.items /= << >> THEN "return"
    ELSE IF att < MAX_EXTRACTION_RETRIES THEN "retry" ELSE "return"
RetryDecision(once, att) ==
    IF once.tag = "Ok" /\ once.items /= << >> THEN "return"
    ELSE IF att < MAX_EXTRACTION_RETRIES THEN "retry" ELSE "return"

\* extractor.rs:793-885: what metadata_script reads of the page: the Open
\* Graph meta tags, the fields of the JSON-LD block, the data-src of the img
\* element that has one and the href of the video preload link ("" when absent)
MetaDoms == [ ogImage : {"", I_JPG},
              ogVideo : {"", V_MP4, V_BLOB},
              ogVideoUrl : {"", V_MP4Q},
              ogVideoSecureUrl : {"", V_MP4},
              ldContent : {"", V_MP4Q, I_JPG},
              ldVideo : {"", V_MP4},
              ldImage : {"", I_JPG2},
              ldThumbnail : {"", I_JPG},
              dataSrc : {"", I_JPG2, I_DATA},
              preload : {"", V_MP4, V_BLOB} ]

\* no page is read
NoMeta == [ ogImage |-> "", ogVideo |-> "", ogVideoUrl |-> "", ogVideoSecureUrl |-> "",
            ldContent |-> "", ldVideo |-> "", ldImage |-> "", ldThumbnail |-> "",
            dataSrc |-> "", preload |-> "" ]

\* extractor.rs:805-885: the guarded push of metadata_script: a url that is
\* set, passes the test of its source, and is not in media yet
MetaPush(media, passes, u, t) ==
    IF u /= "" /\ passes /\ ~(\E i \in 1 .. Len(media) : media[i].url = u)
    THEN Append(media, Item(u, t))
    ELSE media

\* extractor.rs:804-808: the Open Graph videos
MetaOgVideos(d) ==
    LET m1 == MetaPush(<< >>, ~IsBlob(d.ogVideo), d.ogVideo, "video")
        m2 == MetaPush(m1, ~IsBlob(d.ogVideoUrl), d.ogVideoUrl, "video")
    IN MetaPush(m2, ~IsBlob(d.ogVideoSecureUrl), d.ogVideoSecureUrl, "video")

\* extractor.rs:811-813: the push of the Open Graph image names url, which no
\* scope declares there: the statement throws a ReferenceError when reached
MetaThrows(d) ==
    d.ogImage /= "" /\ ~(\E i \in 1 .. Len(MetaOgVideos(d)) : MetaOgVideos(d)[i].url = d.ogImage)

\* extractor.rs:815-885: the JSON-LD block, the data-src images, the preload links
MetaRest(media, d) ==
    LET m1 == MetaPush(media, Contains(d.ldContent, ".mp4"), d.ldContent, "video")
        m2 == MetaPush(m1, TRUE, d.ldVideo, "video")
        m3 == MetaPush(m2, TRUE, d.ldImage, "image")
        m4 == MetaPush(m3, TRUE, d.ldThumbnail, "image")
        m5 == MetaPush(m4, ~StartsWith(d.dataSrc, "data:"), d.dataSrc, "image")
    IN MetaPush(m5, ~IsBlob(d.preload), d.preload, "video")

\* extractor.rs:786-894: metadata_script; the catch of the outer try block
\* returns the media pushed before the throw
MetadataScript(d) ==
    IF MetaThrows(d) THEN MetaOgVideos(d) ELSE MetaRest(MetaOgVideos(d), d)

\* extractor.rs:911-920: the videos of media_arr that qualify
MetaVideos(media_arr) ==
    SelectSeq(media_arr, LAMBDA m : /\ m.url /= ""
                                    /\ ~IsBlob(m.url)
                                    /\ m.type = "video"
                                    /\ EndsWith(m.url, ".mp4"))

\* extractor.rs:926-935
MetaItems(media_arr) == SelectSeq(media_arr, LAMBDA m : m.url /= "" /\ ~IsBlob(m.url))

\* extractor.rs:896-944: the value of extract_media_from_metadata
MetadataResult(executed, media_arr) ==
    IF ~executed THEN XErr("Failed to execute metadata extraction script")
    ELSE IF MetaVideos(media_arr) /= << >>
         THEN XOk(<< MetaVideos(media_arr)[1] >>)
         ELSE XOk(MetaItems(media_arr))

Pages ==
    { pg \in [stories : UNION { [1 .. n -> StoryKinds] : n \in 0 .. MaxPageStories },
              back : 0 .. MaxPageStories] : pg.back <= Len(pg.stories) }

ExtractIdle ==
    /\ x_pc = "idle"
    /\ x_fn = "none"
    /\ attempt = 0
    /\ x_once = XNone
    /\ x_ret = XNone
    /\ x_calls = 0
    /\ x_paused = 0
    /\ x_scripts = {}
    /\ reel_media = << >>
    /\ meta_dom = NoMeta
    /\ result = << >>
    /\ story_count = 0
    /\ nav = 0
    /\ p_stories = << >>
    /\ p_back = 0
    /\ p_pos = 0

\* a caller invokes extract_post_media or extract_stories on a session
\* that shows some page
ExtractInit ==
    /\ x_pc = "call"
    /\ x_fn \in {"post", "stories"}
    /\ attempt = 0
    /\ x_once = XNone
    /\ x_ret = XNone
    /\ x_calls = 0
    /\ x_paused = 0
    /\ x_scripts = {}
    /\ reel_media = << >>
    /\ meta_dom = NoMeta
    /\ result = << >>
    /\ story_count = 0
    /\ nav = 0
    /\ \E pg \in Pages :
          /\ x_fn = "post" => pg.stories = << >> /\ pg.back = 0
          /\ p_stories = pg.stories
          /\ p_back = pg.back
          /\ p_pos = IF pg.stories = << >> THEN 0 ELSE 1

OnceReturn(r) ==
    /\ x_once' = r
    /\ x_pc' = "once_ret"

\* extractor.rs:155-156 / 475-476: one iteration of the outer retry loop
\* calls the strategy
extract_retry_call ==
    /\ UNCHANGED << notExtract, meta_dom >>
    /\ x_pc = "call"
    /\ x_calls' = x_calls + 1
    /\ x_scripts' = {}
    /\ reel_media' = << >>
    /\ nav' = 0
    /\ x_fn \in {"post", "stories"}
    /\ x_pc' = IF x_fn = "post" THEN "p_reel" ELSE "s_first"
    /\ UNCHANGED << x_fn, attempt, x_once, x_ret, x_paused, result, story_count,
                    p_stories, p_back, p_pos >>

\* extractor.rs:172-237: reel_script and the reel short circuit
extract_post_media_once_reel ==
    /\ UNCHANGED << notExtract, meta_dom >>
    /\ x_pc = "p_reel"
    /\ x_scripts' = x_scripts \cup {"reel_script"}
    /\ \/ /\ OnceReturn(XErr("Failed to execute reel script"))
          /\ UNCHANGED reel_media
       \/ \E videoSrc \in {"", V_BLOB, V_MP4, V_MP4Q}, sourceSrc \in {"", V_MP4} :
             LET items == ReelFilter(ReelScript(videoSrc, sourceSrc)) IN
             /\ reel_media' = ReelScript(videoSrc, sourceSrc)
             /\ IF items /= << >>
                THEN OnceReturn(XOk(items))
                ELSE x_pc' = "p_post" /\ UNCHANGED x_once
    /\ UNCHANGED << x_fn, attempt, x_ret, x_calls, x_paused, result, story_count, nav,
                    p_stories, p_back, p_pos >>

\* extractor.rs:239-471: post_script and its filter
extract_post_media_once_post ==
    /\ UNCHANGED << notExtract, reel_media, meta_dom >>
    /\ x_pc = "p_post"
    /\ x_scripts' = x_scripts \cup {"post_script"}
    /\ \/ OnceReturn(XErr("Failed to execute post script"))
       \/ \E dom \in PostDoms : OnceReturn(XOk(PostFilter(PostScript(dom))))
    /\ UNCHANGED << x_fn, attempt, x_ret, x_calls, x_paused, result, story_count, nav,
                    p_stories, p_back, p_pos >>

\* extractor.rs:491-573: the load wait, the first extraction; the attempt
\* returns at once with an empty result when nothing usable was found
extract_stories_once_first ==
    /\ UNCHANGED << notExtract, reel_media, meta_dom >>
    /\ x_pc = "s_first"
    /\ x_scripts' = x_scripts \cup {"extract_script"}
    /\ \/ /\ OnceReturn(XErr("Failed to execute story script"))
          /\ UNCHANGED << result, story_count >>
       \/ \E loaded \in BOOLEAN :
             LET it == IF loaded THEN StoryScript(CurrentStory) ELSE NullItem
                 res == IF StoryUsable(it) THEN << it >> ELSE << >>
             IN /\ result' = res
                /\ story_count' = 1
                /\ IF res /= << >>
                   THEN x_pc' = "s_next" /\ UNCHANGED x_once
                   ELSE OnceReturn(XOk(res))
    /\ UNCHANGED << x_fn, attempt, x_ret, x_calls, x_paused, nav, p_stories, p_back, p_pos >>

\* extractor.rs:574-586: the loop test and the click on the next-story control
extract_stories_once_next ==
    /\ UNCHANGED << notExtract, reel_media, meta_dom >>
    /\ x_pc = "s_next"
    /\ IF StoryLoopGuard(story_count)
       THEN /\ nav < MaxNav
            /\ x_scripts' = x_scripts \cup {"next_story_script"}
            /\ \/ /\ OnceReturn(XErr("Failed to execute next story script"))
                  /\ UNCHANGED << nav, p_pos >>
               \/ IF HasMore
                  THEN /\ p_pos' = NextPos
                       /\ nav' = nav + 1
                       /\ x_pc' = "s_extract"
                       /\ UNCHANGED x_once
                  ELSE /\ OnceReturn(XOk(result))
                       /\ UNCHANGED << nav, p_pos >>
       ELSE /\ OnceReturn(XOk(result))
            /\ UNCHANGED << x_scripts, nav, p_pos >>
    /\ UNCHANGED << x_fn, attempt, x_ret, x_calls, x_paused, result, story_count,
                    p_stories, p_back >>

\* extractor.rs:588-604: extract the story shown after the click
extract_stories_once_extract ==
    /\ UNCHANGED << notExtract, reel_media, meta_dom >>
    /\ x_pc = "s_extract"
    /\ \/ /\ OnceReturn(XErr("Failed to execute story script"))
          /\ UNCHANGED << result, story_count >>
       \/ LET it == StoryScript(CurrentStory) IN
          /\ IF StoryUsable(it)
             THEN /\ story_count' = story_count + 1
                  /\ result' = Append(result, it)
             ELSE UNCHANGED << result, story_count >>
          /\ x_pc' = "s_next"
          /\ UNCHANGED x_once
    /\ UNCHANGED << x_fn, attempt, x_ret, x_calls, x_paused, x_scripts, nav,
                    p_stories, p_back, p_pos >>

\* extractor.rs:157-164 / 477-484: the match on the attempt's result
RetryMatch ==
    /\ UNCHANGED << notExtract, reel_media, meta_dom >>
    /\ x_pc = "once_ret"
    /\ IF RetryDecision(x_once, attempt) = "return"
       THEN /\ x_ret' = x_once
            /\ x_pc' = "ret"
       ELSE /\ x_pc' = "pause"
            /\ UNCHANGED x_ret
    /\ UNCHANGED << x_fn, attempt, x_once, x_calls, x_paused, x_scripts, result,
                    story_count, nav, p_stories, p_back, p_pos >>

extract_post_media_match == x_fn = "post" /\ RetryMatch
extract_stories_match == x_fn = "stories" /\ RetryMatch

\* extractor.rs:161 / 481: the pause before the next attempt
extract_retry_pause ==
    /\ UNCHANGED << notExtract, reel_media, meta_dom >>
    /\ x_pc = "pause"
    /\ x_paused' = x_paused + PAUSE_SECS
    /\ attempt' = attempt + 1
    /\ x_pc' = "call"
    /\ UNCHANGED << x_fn, x_once, x_ret, x_calls, x_scripts, result, story_count, nav,
                    p_stories, p_back, p_pos >>

\* a caller invokes extract_media_from_metadata on a session that shows
\* some page
MetadataInit ==
    /\ x_pc = "call"
    /\ x_fn = "metadata"
    /\ attempt = 0
    /\ x_once = XNone
    /\ x_ret = XNone
    /\ x_calls = 0
    /\ x_paused = 0
    /\ x_scripts = {}
    /\ reel_media = << >>
    /\ meta_dom \in MetaDoms
    /\ result = << >>
    /\ story_count = 0
    /\ nav = 0
    /\ p_stories = << >>
    /\ p_back = 0
    /\ p_pos = 0

\* extractor.rs:782-945: extract_media_from_metadata runs metadata_script
\* once and returns
extract_media_from_metadata ==
    /\ UNCHANGED << notExtract, reel_media, meta_dom >>
    /\ x_pc = "call"
    /\ x_fn = "metadata"
    /\ x_calls' = x_calls + 1
    /\ x_scripts' = x_scripts \cup {"metadata_script"}
    /\ \E executed \in BOOLEAN :
          x_ret' = MetadataResult(executed, MetadataScript(meta_dom))
    /\ x_pc' = "ret"
    /\ UNCHANGED << attempt, x_fn, x_once, x_paused, result, story_count, nav,
                    p_stories, p_back, p_pos >>

ExtractNext ==
    \/ extract_retry_call
    \/ extract_post_media_once_reel
    \/ extract_post_media_once_post
    \/ extract_stories_once_first
    \/ extract_stories_once_next
    \/ extract_stories_once_extract
    \/ extract_post_media_match
    \/ extract_stories_match
    \/ extract_retry_pause

(***************************************************************************)
(* services/downloader.rs: download_with_ytdlp                             *)
(***************************************************************************)
NOT_INSTALLED == "yt-dlp is not installed. Please install it"

\* the host the server runs on
Hosts == [ytdlp : {"present", "absent", "noexec"}, which : {"present", "absent"}]

\* downloader.rs:177-180: tokio Command::output() is Err when the process
\* cannot be spawned: the executable does not exist or may not be executed
SpawnFails(ytdlp) == ytdlp /= "present"

\* downloader.rs:204: std Command::output() of the probe is Err only when
\* the which command itself cannot be spawned; a probe that runs and does not
\* find yt-dlp is Ok(output) with a non-zero exit status
ProbeIsErr(which) == which = "absent"

\* the decimal digits of a natural number, as format! writes them
RECURSIVE Decimal(_)
Decimal(n) ==
    IF n < 10 THEN SubSeq("0123456789", n + 1, n + 1)
    ELSE Decimal(n \div 10) \o Decimal(n % 10)

\* the format {:03}: zero-padded to a width of 3
Pad3(n) ==
    IF Len(Decimal(n)) >= 3 THEN Decimal(n)
    ELSE SubSeq("000", 1, 3 - Len(Decimal(n))) \o Decimal(n)

\* story.rs:23 / reel.rs:22 / post.rs:24, the folder of a request that
\* read the clock at timestamp (in seconds)
folder_prefix(h) ==
    IF h = "story::download" THEN "insta_stories_"
    ELSE IF h = "reel::download" THEN "insta_reel_" ELSE "insta_post_"
folder_name(h, timestamp) == folder_prefix(h) \o Decimal(timestamp)

\* downloader.rs:148-173: the arguments of the yt-dlp command
ToolArgs_AlwaysCookies(u, folder, browser_arg, is_story) ==
    << "--no-warnings", "--concurrent-fragments", "5", "--add-metadata",
       "--retry-sleep", "3", "--retries", "10", "--no-playlist", "--progress",
       "-o", folder \o "/%(title)s_%(id)s.%(ext)s" >>
    \o << "--cookies-from-browser", browser_arg >>
    \o << u >>
ToolArgs(u, folder, browser_arg, is_story) ==
    << "--no-warnings", "--concurrent-fragments", "5", "--add-metadata",
       "--retry-sleep", "3", "--retries", "10", "--no-playlist", "--progress",
       "-o", folder \o "/%(title)s_%(id)s.%(ext)s" >>
    \o (IF is_story THEN << "--cookies-from-browser", browser_arg >> ELSE << >>)
    \o << u >>

ToolIdle ==
    /\ t_pc = "idle"
    /\ t_is_story = FALSE
    /\ t_args = << >>
    /\ t_ret = NoRet
    /\ t_spawns = 0
    /\ t_probes = 0
    /\ env_ytdlp = "present"
    /\ env_which = "present"

\* the tool is not running, on some host
ToolInit ==
    /\ t_pc = "idle"
    /\ t_is_story = FALSE
    /\ t_args = << >>
    /\ t_ret = NoRet
    /\ t_spawns = 0
    /\ t_probes = 0
    /\ \E host \in Hosts :
          /\ env_ytdlp = host.ytdlp
          /\ env_which = host.which

\* a handler calls download_with_ytdlp(url, folder, browser, is_story)
CallTool(is_story) ==
    /\ t_pc' = "spawn"
    /\ t_is_story' = is_story
    /\ t_args' = << >>
    /\ t_ret' = NoRet
    /\ t_spawns' = 0
    /\ t_probes' = 0
    /\ UNCHANGED << env_ytdlp, env_which >>

\* a handler takes the value download_with_ytdlp returned
TakeToolRet ==
    /\ t_pc' = "idle"
    /\ UNCHANGED << t_is_story, t_args, t_ret, t_spawns, t_probes, env_ytdlp, env_which >>

\* downloader.rs:146-199: build the arguments, spawn yt-dlp, wait for it
download_with_ytdlp_spawn ==
    /\ UNCHANGED notTool
    /\ t_pc = "spawn"
    /\ t_spawns' = t_spawns + 1
    /\ IF SpawnFails(env_ytdlp)
       THEN /\ t_pc' = "probe"
            /\ UNCHANGED t_ret
       ELSE /\ t_pc' = "ret"
            /\ \E success \in BOOLEAN :
                  t_ret' = IF success THEN RetOk ELSE RetErr("yt-dlp execution failed")
    /\ t_args' = ToolArgs(url, folder_name(handler, 0), "chrome", t_is_story)
    /\ UNCHANGED << t_is_story, t_probes, env_ytdlp, env_which >>

\* downloader.rs:200-211: the spawn failed; probe for the binary with which
download_with_ytdlp_probe ==
    /\ UNCHANGED notTool
    /\ t_pc = "probe"
    /\ t_probes' = t_probes + 1
    /\ t_ret' = IF ProbeIsErr(env_which)
                THEN RetErr(NOT_INSTALLED)
                ELSE RetErr("Failed to execute yt-dlp")
    /\ t_pc' = "ret"
    /\ UNCHANGED << t_is_story, t_args, t_spawns, env_ytdlp, env_which >>

ToolNext ==
    \/ download_with_ytdlp_spawn
    \/ download_with_ytdlp_probe

(***************************************************************************)
(* routes/download.rs and handlers/*.rs: one request                       *)
(***************************************************************************)
\* URLs a request may carry
U_STORY == "https://i/stories/u/1/"
U_STORY_REEL == "https://i/stories/reel/1/"
U_REEL == "https://i/reel/C1/"
U_REELS == "https://i/reels/C1/"
U_POST == "https://i/p/C1/"
U_TV == "https://i/tv/C1/"
RequestUrls == {U_STORY, U_STORY_REEL, U_REEL, U_REELS, U_POST, U_TV}

\* extractor.rs:948-950
is_story_url(u) == Contains(u, "/stories/")
\* extractor.rs:953-955
is_reel_url(u) == Contains(u, "/reel/")

\* routes/download.rs:595-623: the handler handle_download calls
Dispatch_BySecond(u) ==
    IF clock > 0 THEN "insta_post::download"
    ELSE IF is_story_url(u) THEN "story::download"
         ELSE IF is_reel_url(u) THEN "reel::download"
              ELSE "insta_post::download"
Dispatch(u) ==
    IF is_story_url(u) THEN "story::download"
    ELSE IF is_reel_url(u) THEN "reel::download"
         ELSE "insta_post::download"

\* Option<Vec<MediaItem>>
NoItems == [some |-> FALSE, items |-> << >>]
SomeItems_Absent(items) == [some |-> FALSE, items |-> items]
SomeItems(items) == [some |-> TRUE, items |-> items]

\* extractor.rs:98-103
webdriver_urls == << "http://localhost:9515", "http://localhost:4444",
                     "http://127.0.0.1:9515", "http://127.0.0.1:4444" >>

\* extractor.rs:108-150: create_browser_client, where k is the first endpoint
\* that accepts the connection (0 when none does); Ok(client) is an open session
create_browser_client(k) ==
    session' = IF k \in 1 .. Len(webdriver_urls) THEN "open" ELSE "none"

\* client.close()
Close == session' = "closed"

\* the folder scan of the story handler has not run
NoScan == -1

\* the reel handler has fetched no file; else size is the size of reel.mp4
\* and metadata the size std::fs::metadata reported, NoLen when it failed
NoReelFile == [size |-> NoFile, metadata |-> NoLen]

\* the request attempts strategies in this order: "tool_cookies" and "tool"
\* are calls of download_with_ytdlp with and without cookies, "browser" is the
\* opening of a browser-automation session, "extract" a call of the content
\* extractor, "batch" the batch of downloads, "fetch" the direct fetch of a reel
Attempt_Prepend(strategies) == h_log' = strategies \o h_log
Attempt(strategies) == h_log' = h_log \o strategies

\* the handler returns msg
Return(msg) ==
    /\ response' = msg
    /\ h_pc' = "done"

\* story pages on which the next-story control ends after the last story
StraightPages == { pg \in Pages : pg.back = 0 }
NoPage == [stories |-> << >>, back |-> 0]

\* a handler calls extract_post_media ("post") or extract_stories ("stories")
\* on its session, which shows the page pg
CallExtract(fn, pg) ==
    /\ x_pc' = "call"
    /\ x_fn' = fn
    /\ attempt' = 0
    /\ x_once' = XNone
    /\ x_ret' = XNone
    /\ x_calls' = 0
    /\ x_paused' = 0
    /\ x_scripts' = {}
    /\ reel_media' = << >>
    /\ meta_dom' = NoMeta
    /\ result' = << >>
    /\ story_count' = 0
    /\ nav' = 0
    /\ p_stories' = pg.stories
    /\ p_back' = pg.back
    /\ p_pos' = IF pg.stories = << >> THEN 0 ELSE 1

\* routes/download.rs:125-163: the three signals of a login wall that the
\* page may show: a button or link with Log In or Sign Up, a text of
\* restricted content, an Instagram page without img[srcset] and video;
\* the pages of the model show none of them or one
NoSignals == [callToAction |-> FALSE, restricted |-> FALSE, noMedia |-> FALSE]
PageSignals ==
    { NoSignals,
      [NoSignals EXCEPT !.callToAction = TRUE],
      [NoSignals EXCEPT !.restricted = TRUE],
      [NoSignals EXCEPT !.noMedia = TRUE] }

HandlerIdle ==
    /\ h_pc = "idle"
    /\ entry = "none"
    /\ url = None
    /\ handler = "none"
    /\ session = "none"
    /\ response = None
    /\ video_src = ""
    /\ attempts = 0
    /\ content_type = "none"
    /\ media_items = NoItems
    /\ error_message = None
    /\ h_log = << >>
    /\ scan_count = NoScan
    /\ reel_file = NoReelFile
    /\ page_signals = NoSignals
    /\ poll_vals = << >>
    /\ poll_slept = 0
    /\ use_ytdlp_first = None

BatchIdle ==
    /\ b_n = 0
    /\ b_items = << >>
    /\ filenames = << >>
    /\ tasks = << >>
    /\ permits = 0
    /\ success_count = 0

\* a request arrives at POST /api/download (handle_download), at POST
\* /api/preview (preview_handler) or at the post handler (post::download);
\* only handle_download reads the url out of an untyped payload
HandlerInit ==
    /\ h_pc = "entry"
    /\ entry \in {"handle_download", "preview_handler", "post::download"}
    /\ url \in RequestUrls \cup {None}
    /\ url = None => entry = "handle_download"
    /\ handler = "none"
    /\ session = "none"
    /\ response = None
    /\ video_src = ""
    /\ attempts = 0
    /\ content_type = "none"
    /\ media_items = NoItems
    /\ error_message = None
    /\ h_log = << >>
    /\ scan_count = NoScan
    /\ reel_file = NoReelFile
    /\ page_signals = NoSignals
    /\ poll_vals = << >>
    /\ poll_slept = 0
    /\ use_ytdlp_first = None

\* routes/download.rs:591-592: payload.get("use_ytdlp_first").and_then(as_bool),
\* None for a payload without the key or with a value that is not a boolean
YtdlpFirstOptions == {None, "Some(true)", "Some(false)"}

\* routes/download.rs:578-625: the payload's option goes into the
\* ReelDownloadRequest only (line 611); the other requests have no such field
handle_download ==
    /\ h_pc = "entry"
    /\ entry = "handle_download"
    /\ IF url = None
       THEN /\ Return("URL is required")
            /\ UNCHANGED << handler, use_ytdlp_first >>
       ELSE /\ handler' = Dispatch(url)
            /\ h_pc' = Dispatch(url)
            /\ \E option \in YtdlpFirstOptions :
                  use_ytdlp_first' = IF Dispatch(url) = "reel::download"
                                     THEN option ELSE None
            /\ UNCHANGED response
    /\ UNCHANGED << entry, url, session, video_src, attempts, content_type,
                    media_items, error_message, h_log, scan_count, reel_file,
                    page_signals, poll_vals, poll_slept >>
    /\ UNCHANGED << folderVars, connectVars, headlessVars, fetchVars, extractVars, toolVars, batchVars >>

\* handlers/insta_post.rs:11-15
insta_post_download ==
    /\ h_pc = "insta_post::download"
    /\ Return("Post download started")
    /\ UNCHANGED << entry, url, handler, session, video_src, attempts, content_type,
                    media_items, error_message, h_log, scan_count, reel_file, page_signals, poll_vals, poll_slept, use_ytdlp_first >>
    /\ UNCHANGED << folderVars, connectVars, headlessVars, fetchVars, extractVars, toolVars, batchVars >>

(***************************************************************************)
(* The batch of downloads (handlers/story.rs:99-129, handlers/post.rs:68-93)*)
(* A task's fetch is one call of download_media_with_retry, which returns  *)
(* Ok or Err; the steps inside the call are those of the fetcher above.    *)
(***************************************************************************)
\* story.rs:99
STORY_PERMITS == 8
\* post.rs:68
POST_PERMITS == 10

\* tokio Semaphore: acquire completes only while a permit is left
CanAcquire_Always(p) == TRUE
CanAcquire(p) == p > 0

\* story.rs:115-129 / post.rs:90-93: the tasks counted as successes
CountSuccess_AllFinished(ts) == Cardinality({ i \in DOMAIN ts : ts[i] \in {"ok", "err"} })
CountSuccess(ts) == Cardinality({ i \in DOMAIN ts : ts[i] = "ok" })

\* the tasks that hold a permit: their fetch is in flight
InFlight == { i \in DOMAIN tasks : tasks[i] = "running" }
Finished == { i \in DOMAIN tasks : tasks[i] \in {"ok", "err"} }
\* the item the spawning loop is at
NextToSpawn(i) ==
    /\ i \in DOMAIN tasks
    /\ tasks[i] = "unspawned"
    /\ \A j \in 1 .. (i - 1) : tasks[j] /= "unspawned"

\* story.rs:102 / post.rs:75
extension(media_type) == IF media_type = "video" THEN "mp4" ELSE "jpg"

\* story.rs:103, the destination of the item at index i of stories
story_filename_NoIndex(folder, i, media_type) ==
    folder \o "/story_" \o "." \o extension(media_type)
story_filename(folder, i, media_type) ==
    folder \o "/story_" \o Pad3(i + 1) \o "." \o extension(media_type)

\* post.rs:75, the destination of the item at index i of media_items
post_filename(folder, i, media_type) ==
    folder \o "/media_" \o Decimal(i + 1) \o "." \o extension(media_type)

\* story.rs:99-100 / post.rs:68-69: the semaphore and the empty task list
StartBatch_DropLast(items, limit) ==
    /\ b_n' = Len(items) - 1
    /\ b_items' = SubSeq(items, 1, Len(items) - 1)
    /\ filenames' = << >>
    /\ tasks' = [i \in 1 .. Len(items) - 1 |-> "unspawned"]
    /\ permits' = limit
    /\ success_count' = 0
StartBatch(items, limit) ==
    /\ b_n' = Len(items)
    /\ b_items' = items
    /\ filenames' = << >>
    /\ tasks' = [i \in 1 .. Len(items) |-> "unspawned"]
    /\ permits' = limit
    /\ success_count' = 0

\* story.rs:107-111 / post.rs:80-84: the fetch of task i returns and the
\* task's permit is dropped
TaskFetchReturns_KeptOnErr(i) ==
    /\ tasks[i] = "running"
    /\ \E fetched \in {"ok", "err"} :
          /\ tasks' = [tasks EXCEPT ![i] = fetched]
          /\ permits' = IF fetched = "ok" THEN permits + 1 ELSE permits
    /\ UNCHANGED << b_n, b_items, filenames, success_count >>
TaskFetchReturns(i) ==
    /\ tasks[i] = "running"
    /\ \E fetched \in {"ok", "err"} : tasks' = [tasks EXCEPT ![i] = fetched]
    /\ permits' = permits + 1
    /\ UNCHANGED << b_n, b_items, filenames, success_count >>

(***************************************************************************)
(* handlers/story.rs                                                       *)
(***************************************************************************)
\* story.rs:20-36: create the folder, then the external tool with cookies
story_download_start ==
    /\ h_pc = "story::download"
    /\ \E created \in BOOLEAN :
          IF created
          THEN /\ CallTool(TRUE)
               /\ Attempt(<< "tool_cookies" >>)
               /\ h_pc' = "story_ytdlp"
               /\ UNCHANGED response
          ELSE /\ Return("Failed to create folder")
               /\ UNCHANGED << toolVars, h_log >>
    /\ UNCHANGED << entry, url, handler, session, video_src, attempts, content_type,
                    media_items, error_message, scan_count, reel_file, page_signals, poll_vals, poll_slept, use_ytdlp_first >>
    /\ UNCHANGED << folderVars, connectVars, headlessVars, fetchVars, extractVars, batchVars >>

\* story.rs:36-58: what the scan of the folder counts: nothing when the tool
\* failed or the folder cannot be read, else the number of story_ files
ScanCounts(ret) == IF ret.tag = "Ok" THEN {NoScan, 0, 1} ELSE {NoScan}

\* story.rs:49, the scan that makes the run of the tool a success
StoriesFound_AnyScan(found) == found >= 0
StoriesFound(found) == found > 0

\* story.rs:36-72: the tool returned; count the story_ files it left, or
\* fall back to the browser
story_download_ytdlp ==
    /\ h_pc = "story_ytdlp"
    /\ t_pc = "ret"
    /\ TakeToolRet
    /\ \E found \in ScanCounts(t_ret), k \in 0 .. Len(webdriver_urls) :
          /\ scan_count' = found
          /\ IF StoriesFound(found)
             THEN /\ Return("Downloaded stories with yt-dlp")
                  /\ UNCHANGED << session, h_log >>
             ELSE /\ Attempt(<< "browser" >>)
                  /\ create_browser_client(k)
                  /\ IF k = 0
                     THEN Return("Failed to connect to browser")
                     ELSE h_pc' = "story_goto" /\ UNCHANGED response
    /\ UNCHANGED << entry, url, handler, video_src, attempts, content_type,
                    media_items, error_message, reel_file, page_signals, poll_vals, poll_slept, use_ytdlp_first >>
    /\ UNCHANGED << folderVars, connectVars, headlessVars, fetchVars, extractVars, batchVars >>

\* story.rs:74-78: navigate, then call extract_stories
story_download_goto ==
    /\ h_pc = "story_goto"
    /\ \/ /\ Return("Failed to navigate to URL")
          /\ UNCHANGED << extractVars, h_log >>
       \/ /\ \E pg \in StraightPages : CallExtract("stories", pg)
          /\ Attempt(<< "extract" >>)
          /\ h_pc' = "story_extract"
          /\ UNCHANGED response
    /\ UNCHANGED << entry, url, handler, session, video_src, attempts, content_type,
                    media_items, error_message, scan_count, reel_file, page_signals, poll_vals, poll_slept, use_ytdlp_first >>
    /\ UNCHANGED << folderVars, connectVars, headlessVars, fetchVars, toolVars, batchVars >>

\* story.rs:78-100: extract_stories returned
story_download_extracted ==
    /\ h_pc = "story_extract"
    /\ x_pc = "ret"
    /\ IF x_ret.tag = "Err"
       THEN /\ Return("Failed to extract stories")
            /\ UNCHANGED << session, batchVars, h_log >>
       ELSE /\ Close
            /\ IF x_ret.items = << >>
               THEN /\ Return("No stories found")
                    /\ UNCHANGED << batchVars, h_log >>
               ELSE \E built \in BOOLEAN :
                       IF built
                       THEN /\ StartBatch(x_ret.items, STORY_PERMITS)
                            /\ Attempt(<< "batch" >>)
                            /\ h_pc' = "story_batch"
                            /\ UNCHANGED response
                       ELSE /\ Return("Failed to create HTTP client")
                            /\ UNCHANGED << batchVars, h_log >>
    /\ UNCHANGED << entry, url, handler, video_src, attempts, content_type,
                    media_items, error_message, scan_count, reel_file, page_signals, poll_vals, poll_slept, use_ytdlp_first >>
    /\ UNCHANGED << folderVars, connectVars, headlessVars, fetchVars, extractVars, toolVars >>

\* story.rs:101-112: one round of the spawning loop: wait for a permit,
\* then spawn the task of the next item
story_download_spawn ==
    /\ h_pc = "story_batch"
    /\ \E i \in DOMAIN tasks :
          /\ NextToSpawn(i)
          /\ CanAcquire(permits)
          /\ permits' = permits - 1
          /\ filenames' = Append(filenames, story_filename(folder_name(handler, 0), i - 1,
                                                            b_items[i].type))
          /\ tasks' = [tasks EXCEPT ![i] = "running"]
    /\ UNCHANGED << b_n, b_items, success_count >>
    /\ UNCHANGED << folderVars, connectVars, headlessVars, fetchVars, extractVars, toolVars, handlerVars >>

\* story.rs:107-111: a spawned task
story_download_task ==
    /\ h_pc = "story_batch"
    /\ \E i \in DOMAIN tasks : TaskFetchReturns(i)
    /\ UNCHANGED << folderVars, connectVars, headlessVars, fetchVars, extractVars, toolVars, handlerVars >>

\* story.rs:114-141: join_all, the count of successes and the answer
story_download_join ==
    /\ h_pc = "story_batch"
    /\ Finished = DOMAIN tasks
    /\ success_count' = CountSuccess(tasks)
    /\ IF CountSuccess(tasks) > 0
       THEN Return("Downloaded stories")
       ELSE Return("Failed to download any stories")
    /\ UNCHANGED << b_n, b_items, filenames, tasks, permits >>
    /\ UNCHANGED << entry, url, handler, session, video_src, attempts, content_type,
                    media_items, error_message, h_log, scan_count, reel_file, page_signals, poll_vals, poll_slept, use_ytdlp_first >>
    /\ UNCHANGED << folderVars, connectVars, headlessVars, fetchVars, extractVars, toolVars >>

(***************************************************************************)
(* handlers/post.rs                                                        *)
(***************************************************************************)
\* post.rs:20-42: create the folder and open the browser session; without a
\* session, the external tool
post_download_start ==
    /\ h_pc = "entry"
    /\ entry = "post::download"
    /\ \E created \in BOOLEAN, k \in 0 .. Len(webdriver_urls) :
          IF ~created
          THEN /\ Return("Failed to create folder")
               /\ UNCHANGED << session, toolVars, h_log >>
          ELSE /\ create_browser_client(k)
               /\ UNCHANGED response
               /\ IF k = 0
                  THEN /\ Attempt(<< "browser", "tool" >>)
                       /\ CallTool(FALSE)
                       /\ h_pc' = "post_ytdlp_nobrowser"
                  ELSE /\ Attempt(<< "browser" >>)
                       /\ h_pc' = "post_goto"
                       /\ UNCHANGED toolVars
    /\ handler' = "post::download"
    /\ UNCHANGED << entry, url, video_src, attempts, content_type, media_items,
                    error_message, scan_count, reel_file, page_signals, poll_vals, poll_slept, use_ytdlp_first >>
    /\ UNCHANGED << folderVars, connectVars, headlessVars, fetchVars, extractVars, batchVars >>

\* post.rs:44-57: navigate, wait, then call extract_post_media
post_download_goto ==
    /\ h_pc = "post_goto"
    /\ \/ /\ Return("Failed to navigate to Instagram post")
          /\ UNCHANGED << extractVars, h_log >>
       \/ /\ CallExtract("post", NoPage)
          /\ Attempt(<< "extract" >>)
          /\ h_pc' = "post_extract"
          /\ UNCHANGED response
    /\ UNCHANGED << entry, url, handler, session, video_src, attempts, content_type,
                    media_items, error_message, scan_count, reel_file, page_signals, poll_vals, poll_slept, use_ytdlp_first >>
    /\ UNCHANGED << folderVars, connectVars, headlessVars, fetchVars, toolVars, batchVars >>

\* post.rs:57-69: extract_post_media returned
post_download_extracted ==
    /\ h_pc = "post_extract"
    /\ x_pc = "ret"
    /\ IF x_ret.tag = "Err"
       THEN /\ Return("Failed to extract media")
            /\ UNCHANGED << toolVars, batchVars, h_log >>
       ELSE IF x_ret.items = << >>
            THEN /\ Attempt(<< "tool" >>)
                 /\ CallTool(FALSE)
                 /\ h_pc' = "post_ytdlp_empty"
                 /\ UNCHANGED << response, batchVars >>
            ELSE /\ Attempt(<< "batch" >>)
                 /\ StartBatch(x_ret.items, POST_PERMITS)
                 /\ h_pc' = "post_batch"
                 /\ UNCHANGED << response, toolVars >>
    /\ UNCHANGED << entry, url, handler, session, video_src, attempts, content_type,
                    media_items, error_message, scan_count, reel_file, page_signals, poll_vals, poll_slept, use_ytdlp_first >>
    /\ UNCHANGED << folderVars, connectVars, headlessVars, fetchVars, extractVars >>

\* post.rs:72-87: one round of the spawning loop spawns the task of the next
\* item; the task has no permit yet
post_download_spawn ==
    /\ h_pc = "post_batch"
    /\ \E i \in DOMAIN tasks :
          /\ NextToSpawn(i)
          /\ filenames' = Append(filenames, post_filename(folder_name(handler, 0), i - 1,
                                                           b_items[i].type))
          /\ tasks' = [tasks EXCEPT ![i] = "waiting"]
    /\ UNCHANGED << b_n, b_items, permits, success_count >>
    /\ UNCHANGED << folderVars, connectVars, headlessVars, fetchVars, extractVars, toolVars, handlerVars >>

\* post.rs:78-79: a spawned task acquires its permit. The tokio semaphore
\* is fair: it hands its permits out in the order of the acquire calls,
\* which the model takes to be the order of the spawns (the tasks differ
\* in nothing but the item they fetch)
post_download_acquire ==
    /\ h_pc = "post_batch"
    /\ \E i \in DOMAIN tasks :
          /\ tasks[i] = "waiting"
          /\ \A j \in 1 .. (i - 1) : tasks[j] /= "waiting"
          /\ CanAcquire(permits)
          /\ permits' = permits - 1
          /\ tasks' = [tasks EXCEPT ![i] = "running"]
    /\ UNCHANGED << b_n, b_items, filenames, success_count >>
    /\ UNCHANGED << folderVars, connectVars, headlessVars, fetchVars, extractVars, toolVars, handlerVars >>

\* post.rs:80-84: a task that holds a permit
post_download_task ==
    /\ h_pc = "post_batch"
    /\ \E i \in DOMAIN tasks : TaskFetchReturns(i)
    /\ UNCHANGED << folderVars, connectVars, headlessVars, fetchVars, extractVars, toolVars, handlerVars >>

\* post.rs:92, the batch that sends the request to the external tool
AllFailed_Never(count) == FALSE
AllFailed(count) == count = 0

\* post.rs:89-105: join_all, the count of successes and the answer; with no
\* success, the external tool
post_download_join ==
    /\ h_pc = "post_batch"
    /\ Finished = DOMAIN tasks
    /\ success_count' = CountSuccess(tasks)
    /\ IF AllFailed(CountSuccess(tasks))
       THEN /\ Attempt(<< "tool" >>)
            /\ CallTool(FALSE)
            /\ h_pc' = "post_ytdlp_allfailed"
            /\ UNCHANGED response
       ELSE /\ Return("Downloaded media items")
            /\ UNCHANGED << toolVars, h_log >>
    /\ UNCHANGED << b_n, b_items, filenames, tasks, permits >>
    /\ UNCHANGED << entry, url, handler, session, video_src, attempts, content_type,
                    media_items, error_message, scan_count, reel_file, page_signals, poll_vals, poll_slept, use_ytdlp_first >>
    /\ UNCHANGED << folderVars, connectVars, headlessVars, fetchVars, extractVars >>

\* post.rs:35-40, 60-61, 96-97: the answer of the post handler once the
\* external tool has returned tool_ret, at the place pc of the handler; the
\* value of the tool is matched without a session only, elsewhere it is
\* dropped (let _ =)
PostFallbackResponse(pc, tool_ret) ==
    IF pc = "post_ytdlp_nobrowser"
    THEN IF tool_ret.tag = "Err"
         THEN "yt-dlp fallback failed"
         ELSE "Browser error. Fallback to yt-dlp."
    ELSE IF pc = "post_ytdlp_empty"
         THEN "No valid media found, fallback to yt-dlp executed."
         ELSE "All downloads failed. yt-dlp fallback executed."

\* post.rs:35-40, 60-61, 96-97: the external tool returned
post_download_ytdlp ==
    /\ h_pc \in {"post_ytdlp_nobrowser", "post_ytdlp_empty", "post_ytdlp_allfailed"}
    /\ t_pc = "ret"
    /\ TakeToolRet
    /\ Return(PostFallbackResponse(h_pc, t_ret))
    /\ UNCHANGED << entry, url, handler, session, video_src, attempts, content_type,
                    media_items, error_message, h_log, scan_count, reel_file, page_signals, poll_vals, poll_slept, use_ytdlp_first >>
    /\ UNCHANGED << folderVars, connectVars, headlessVars, fetchVars, extractVars, batchVars >>

(***************************************************************************)
(* handlers/reel.rs                                                        *)
(***************************************************************************)
\* reel.rs:91
POLL_LIMIT == 20
\* reel.rs:212
THUMBNAIL_BYTES == 200000

\* sizes of the file a successful fetch leaves
ReelFileSizes == {150000, 200000, 250000}

\* reel.rs:190
POLL_PAUSE_MS == 500

\* URLs that the source element and og:video of a reel page may hold
V_SRC == "https://c/s.mp4"
V_OG == "https://c/o.mp4"

\* reel.rs:91, the condition of the dynamic-wait loop
PollGuard(att, src) == att < POLL_LIMIT /\ (src = "" \/ IsBlob(src))

\* reel.rs:103-111 (and 124, 158, 179): whether a method's value is taken;
\* "" stands for a failed script, null, or the empty string
PollAccept_NotEmpty(src) == src /= ""
PollAccept(src) == src /= "" /\ ~IsBlob(src)

\* reel.rs:92-187: the value of the first method, in order, that is taken
RECURSIVE FirstAccepted(_)
FirstAccepted(vals) ==
    IF vals = << >> THEN ""
    ELSE IF PollAccept(Head(vals)) THEN Head(vals) ELSE FirstAccepted(Tail(vals))

\* reel.rs:37-39: the first strategy of a reel request, "Always use yt-dlp
\* with Chrome cookies as the first method"; the request's use_ytdlp_first
\* is not read (the field is marked dead_code, reel.rs:14-15)
ReelFirstStrategy_ByOption(option) == IF option = "Some(false)" THEN "tool" ELSE "tool_cookies"
ReelFirstStrategy(option) == "tool_cookies"

\* reel.rs:18-40: create the folder, then the first strategy, for a request
\* whose use_ytdlp_first is option
reel_download_start_with(option) ==
    /\ h_pc = "reel::download"
    /\ \E created \in BOOLEAN :
          IF created
          THEN /\ CallTool(ReelFirstStrategy(option) = "tool_cookies")
               /\ Attempt(<< ReelFirstStrategy(option) >>)
               /\ h_pc' = "reel_ytdlp"
               /\ UNCHANGED response
          ELSE /\ Return("Failed to create folder")
               /\ UNCHANGED << toolVars, h_log >>
    /\ UNCHANGED << entry, url, handler, session, video_src, attempts, content_type,
                    media_items, error_message, scan_count, reel_file, page_signals, poll_vals, poll_slept, use_ytdlp_first >>
    /\ UNCHANGED << folderVars, connectVars, headlessVars, fetchVars, extractVars, batchVars >>

reel_download_start == reel_download_start_with(use_ytdlp_first)

\* reel.rs:40-73: the tool returned; on failure connect to chromedriver
reel_download_ytdlp ==
    /\ h_pc = "reel_ytdlp"
    /\ t_pc = "ret"
    /\ IF t_ret.tag = "Ok"
       THEN /\ Return("Reel downloaded with yt-dlp")
            /\ TakeToolRet
            /\ UNCHANGED << session, h_log >>
       ELSE \E connected \in BOOLEAN :
               IF connected
               THEN /\ Attempt(<< "browser" >>)
                    /\ session' = "open"
                    /\ h_pc' = "reel_goto"
                    /\ TakeToolRet
                    /\ UNCHANGED response
               ELSE /\ Attempt(<< "browser", "tool" >>)
                    /\ CallTool(FALSE)
                    /\ h_pc' = "reel_fallback"
                    /\ UNCHANGED << session, response >>
    /\ UNCHANGED << entry, url, handler, video_src, attempts, content_type,
                    media_items, error_message, scan_count, reel_file, page_signals, poll_vals, poll_slept, use_ytdlp_first >>
    /\ UNCHANGED << folderVars, connectVars, headlessVars, fetchVars, extractVars, batchVars >>

\* reel.rs:76-88: navigate
reel_download_goto ==
    /\ h_pc = "reel_goto"
    /\ \/ /\ Close
          /\ Attempt(<< "goto", "tool" >>)
          /\ CallTool(FALSE)
          /\ h_pc' = "reel_fallback"
       \/ /\ Attempt(<< "goto", "poll" >>)
          /\ h_pc' = "reel_poll"
          /\ UNCHANGED << session, toolVars >>
    /\ video_src' = ""
    /\ attempts' = 0
    /\ poll_vals' = << >>
    /\ poll_slept' = 0
    /\ UNCHANGED << entry, url, handler, response, content_type, media_items,
                    error_message, scan_count, reel_file, page_signals, use_ytdlp_first >>
    /\ UNCHANGED << folderVars, connectVars, headlessVars, fetchVars, extractVars, batchVars >>

\* reel.rs:91-191: one round of the dynamic-wait loop, the four methods in order
reel_download_poll ==
    /\ h_pc = "reel_poll"
    /\ IF PollGuard(attempts, video_src)
       THEN \E videoSrc \in {"", V_BLOB, V_MP4}, sourceSrc \in {"", V_BLOB, V_SRC},
               jsonLd \in {"", V_MP4Q}, ogVideo \in {"", V_BLOB, V_OG} :
               LET found == FirstAccepted(<< videoSrc, sourceSrc, jsonLd, ogVideo >>) IN
               /\ poll_vals' = << videoSrc, sourceSrc, jsonLd, ogVideo >>
               /\ IF found /= ""
                  THEN /\ video_src' = found
                       /\ h_pc' = "reel_fetch"
                       /\ UNCHANGED << attempts, poll_slept >>
                  ELSE /\ attempts' = attempts + 1
                       /\ poll_slept' = poll_slept + POLL_PAUSE_MS
                       /\ UNCHANGED << video_src, h_pc >>
       ELSE /\ h_pc' = "reel_fetch"
            /\ UNCHANGED << video_src, attempts, poll_vals, poll_slept >>
    /\ UNCHANGED << entry, url, handler, session, response, content_type, media_items,
                    error_message, h_log, scan_count, reel_file, page_signals,
                    use_ytdlp_first >>
    /\ UNCHANGED << folderVars, connectVars, headlessVars, fetchVars, extractVars, toolVars, batchVars >>

\* reel.rs:208-211: what the direct fetch leaves: no file when it fails, else
\* a file of some size, which std::fs::metadata reports or fails to report
ReelFetches ==
    {NoReelFile} \cup
    UNION { { [size |-> len, metadata |-> m] : m \in {len, NoLen} } : len \in ReelFileSizes }

\* reel.rs:211-212, the size check; a size that was not reported passes
TooSmall_Never(len) == FALSE
TooSmall(len) == len /= NoLen /\ len < THUMBNAIL_BYTES

\* reel.rs:193-241: without a URL the external tool; with one, the fetch
\* (download_media_with_retry), the size check and the answer
reel_download_fetch ==
    /\ h_pc = "reel_fetch"
    /\ Close
    /\ poll_vals' = << >>
    /\ IF video_src = "" \/ IsBlob(video_src)
       THEN /\ Attempt(<< "tool" >>)
            /\ CallTool(FALSE)
            /\ h_pc' = "reel_fallback"
            /\ UNCHANGED << response, reel_file >>
       ELSE \E fetched \in ReelFetches :
               /\ reel_file' = fetched
               /\ IF fetched.size /= NoFile /\ ~TooSmall(fetched.metadata)
                  THEN /\ Attempt(<< "fetch" >>)
                       /\ Return("Download complete")
                       /\ UNCHANGED toolVars
                  ELSE /\ Attempt(<< "fetch", "tool" >>)
                       /\ CallTool(FALSE)
                       /\ h_pc' = "reel_fallback"
                       /\ UNCHANGED response
    /\ UNCHANGED << entry, url, handler, video_src, attempts, content_type, media_items,
                    error_message, scan_count, page_signals, poll_slept, use_ytdlp_first >>
    /\ UNCHANGED << folderVars, connectVars, headlessVars, fetchVars, extractVars, batchVars >>

\* reel.rs:68-71, 79-82, 196-199, 216-219, 236-239: the fallback tool returned
reel_download_fallback ==
    /\ h_pc = "reel_fallback"
    /\ t_pc = "ret"
    /\ TakeToolRet
    /\ IF t_ret.tag = "Err"
       THEN Return("yt-dlp failed")
       ELSE Return("Reel downloaded with yt-dlp")
    /\ UNCHANGED << entry, url, handler, session, video_src, attempts, content_type,
                    media_items, error_message, h_log, scan_count, reel_file, page_signals, poll_vals, poll_slept, use_ytdlp_first >>
    /\ UNCHANGED << folderVars, connectVars, headlessVars, fetchVars, extractVars, batchVars >>

(***************************************************************************)
(* routes/download.rs: the preview flow (extract_instagram_media)          *)
(***************************************************************************)
\* routes/download.rs:78-98
PreviewType(u) ==
    IF Contains(u, "/stories/") THEN "story"
    ELSE IF Contains(u, "/reel/") \/ Contains(u, "/reels/") THEN "reel"
         ELSE IF Contains(u, "/p/") THEN "post"
              ELSE "unsupported"

\* routes/download.rs:122-168: what executing login_check_script gives on a
\* page, whatever the page shows. The text of the script is not a program:
\* the apostrophe of isn't (line 139) ends the string literal, so the driver
\* answers with a javascript error. A script that ran would be a function
\* call with no return statement in front of it, whose value is null
LoginResults == { [tag |-> "Err", object |-> FALSE, loginRequired |-> FALSE],
                  [tag |-> "Ok", object |-> FALSE, loginRequired |-> FALSE] }

\* routes/download.rs:169-182
LoginRequired(login_result) ==
    login_result.tag = "Ok" /\ login_result.object /\ login_result.loginRequired

\* routes/download.rs:230-239: the extractor the preview calls
PreviewStrategy(login_required, ct) ==
    IF login_required /\ ct = "reel" THEN "metadata"
    ELSE IF ct = "story" THEN "stories" ELSE "post"

\* the metadata that alt_script reads
AltDoms == [ ldContent : {"", V_MP4, V_BLOB},
             ldVideo : {"", V_BLOB},
             ldImage : {"", I_JPG},
             ogVideo : {"", V_MP4},
             ogImage : {"", I_JPG} ]

AltPush(media, cond, u, t) == IF cond THEN Append(media, Item(u, t)) ELSE media

\* routes/download.rs:327-330: keep the first item of each url
RECURSIVE AltDedup(_, _)
AltDedup(media, kept) ==
    IF media = << >> THEN kept
    ELSE IF \E i \in 1 .. Len(kept) : kept[i].url = Head(media).url
         THEN AltDedup(Tail(media), kept)
         ELSE AltDedup(Tail(media), Append(kept, Head(media)))

\* routes/download.rs:267-333: alt_script
AltScript(dom) ==
    LET m1 == AltPush(<< >>, dom.ldContent /= "" /\ Contains(dom.ldContent, ".mp4"),
                      dom.ldContent, "video")
        m2 == AltPush(m1, dom.ldContent /= "" /\ ~Contains(dom.ldContent, ".mp4"),
                      dom.ldContent, "image")
        m3 == AltPush(m2, dom.ldVideo /= "", dom.ldVideo, "video")
        m4 == AltPush(m3, dom.ldImage /= "", dom.ldImage, "image")
        m5 == AltPush(m4, dom.ogVideo /= "", dom.ogVideo, "video")
        m6 == AltPush(m5, dom.ogImage /= "", dom.ogImage, "image")
    IN AltDedup(m6, << >>)

\* routes/download.rs:337-350: the items made of alt_script's value
AltItems(media) == SelectSeq(media, LAMBDA m : TRUE)

(***************************************************************************)
(* services/extractor.rs: extract_reel_video_with_headless_chrome          *)
(***************************************************************************)
\* routes/download.rs:403-404: the folder the preview names for the capture
preview_folder_name(timestamp) == "insta_reel_preview_" \o Decimal(timestamp)

\* extractor.rs:670-704: what getVideoLinks reads of the page: the src of
\* the video element and the content of og:video ("" when absent)
HeadlessPages == [videoSrc : {"", V_BLOB, V_MP4}, ogVideo : {"", V_MP4Q}]

\* extractor.rs:670-704: getVideoLinks
getVideoLinks(pg) ==
    SelectSeq((IF pg.videoSrc /= "" /\ ~IsBlob(pg.videoSrc) THEN << pg.videoSrc >> ELSE << >>)
                  \o (IF pg.ogVideo /= "" THEN << pg.ogVideo >> ELSE << >>),
              LAMBDA u : Contains(u, ".mp4"))

\* what a call meets: whether the headless browser can be launched and
\* driven (extractor.rs:635-704), the page, whether the GET and the reading
\* of the body succeed (730-732), whether folder_name exists, whether
\* std::fs::write succeeds (735), which it cannot in a folder that does not
\* exist, and the length of the body
HeadlessEnvs ==
    { e \in [launched : BOOLEAN, page : HeadlessPages, fetched : BOOLEAN,
             folder_exists : BOOLEAN, written : BOOLEAN, len : ReelFileSizes] :
        e.written => e.folder_exists }

NoCapture == [tag |-> "None", path |-> ""]

\* extractor.rs:726-735: the file at folder_name/reel_video.mp4 once the
\* body of the first link has been written
HeadlessWritten(e) ==
    IF e.launched /\ getVideoLinks(e.page) /= << >> /\ e.fetched /\ e.written
    THEN e.len ELSE NoFile

\* extractor.rs:737-742: a file that is not above the threshold is removed
HeadlessKept_Any(size) == size /= NoFile
HeadlessKept(size) == size /= NoFile /\ size > THUMBNAIL_BYTES

\* extractor.rs:618-779: Err when the browser cannot be launched or driven;
\* Some(path) when a link was found, fetched, written, and is large enough
HeadlessCapture(folder, e) ==
    IF ~e.launched THEN [tag |-> "Err", path |-> ""]
    ELSE IF HeadlessKept(HeadlessWritten(e))
         THEN [tag |-> "Ok", path |-> folder \o "/reel_video.mp4"]
         ELSE [tag |-> "Ok", path |-> ""]

HeadlessIdle ==
    /\ hc_pc = "idle"
    /\ hc_env = << >>
    /\ hc_file = NoFile
    /\ hc_ret = NoCapture

\* extract_reel_video_with_headless_chrome is called with the name of a
\* folder, which exists or does not
HeadlessInit ==
    /\ hc_pc = "call"
    /\ hc_env \in HeadlessEnvs
    /\ hc_file = NoFile
    /\ hc_ret = NoCapture

\* extractor.rs:635-735: launch, navigate, evaluate getVideoLinks, fetch the
\* first link and write its body
headless_chrome_write ==
    /\ hc_pc = "call"
    /\ IF ~hc_env.launched
       THEN /\ hc_ret' = [tag |-> "Err", path |-> ""]
            /\ hc_pc' = "ret"
            /\ UNCHANGED hc_file
       ELSE /\ hc_file' = HeadlessWritten(hc_env)
            /\ hc_pc' = "written"
            /\ UNCHANGED hc_ret
    /\ UNCHANGED hc_env
    /\ UNCHANGED << fetchVars, extractVars, toolVars, handlerVars, batchVars, folderVars,
                    connectVars >>

\* extractor.rs:737-778: the size check, the removal of a small file, the
\* screenshot and the return
headless_chrome_return ==
    /\ hc_pc = "written"
    /\ IF HeadlessKept(hc_file)
       THEN /\ hc_ret' = [tag |-> "Ok", path |-> preview_folder_name(0) \o "/reel_video.mp4"]
            /\ UNCHANGED hc_file
       ELSE /\ hc_ret' = [tag |-> "Ok", path |-> ""]
            /\ hc_file' = NoFile
    /\ hc_pc' = "ret"
    /\ UNCHANGED hc_env
    /\ UNCHANGED << fetchVars, extractVars, toolVars, handlerVars, batchVars, folderVars,
                    connectVars >>

HeadlessNext ==
    \/ headless_chrome_write
    \/ headless_chrome_return

(***************************************************************************)
(* routes/download.rs: the preview flow, continued                         *)
(***************************************************************************)

\* routes/download.rs:69-102: classify the url, then open the session
extract_instagram_media_start ==
    /\ h_pc = "entry"
    /\ entry = "preview_handler"
    /\ IF PreviewType(url) = "unsupported"
       THEN /\ content_type' = "post"
            /\ error_message' = "Unsupported URL format"
            /\ Return("PreviewResponse failure")
            /\ UNCHANGED session
       ELSE /\ content_type' = PreviewType(url)
            /\ UNCHANGED response
            /\ \E k \in 0 .. Len(webdriver_urls) :
                  /\ create_browser_client(k)
                  /\ IF k = 0
                     THEN /\ error_message' = "Failed to create browser client"
                          /\ h_pc' = "preview_fallback"
                     ELSE /\ h_pc' = "preview_goto"
                          /\ UNCHANGED error_message
    /\ UNCHANGED << entry, url, handler, video_src, attempts, media_items >>
    /\ UNCHANGED << h_log, scan_count, reel_file, page_signals, poll_vals, poll_slept, use_ytdlp_first >>
    /\ UNCHANGED << folderVars, connectVars, headlessVars, fetchVars, extractVars, toolVars, batchVars >>

\* routes/download.rs:107-239 and 383-391: navigate, check for a login wall,
\* wait, then call the extractor chosen for the content type
extract_instagram_media_goto ==
    /\ h_pc = "preview_goto"
    /\ \/ /\ error_message' = "Failed to navigate to URL"
          /\ Close
          /\ h_pc' = "preview_fallback"
          /\ UNCHANGED extractVars
          /\ UNCHANGED page_signals
       \/ \E signals \in PageSignals, login_result \in LoginResults :
             /\ page_signals' = signals
             /\ \E pg \in StraightPages :
                   /\ content_type /= "story" => pg = NoPage
                   /\ CallExtract(PreviewStrategy(LoginRequired(login_result), content_type),
                                  pg)
             /\ h_pc' = "preview_extract"
             /\ UNCHANGED << session, error_message >>
    /\ UNCHANGED << entry, url, handler, response, video_src, attempts, content_type,
                    media_items >>
    /\ UNCHANGED << h_log, scan_count, reel_file, poll_vals, poll_slept, use_ytdlp_first >>
    /\ UNCHANGED << folderVars, connectVars, headlessVars, fetchVars, toolVars, batchVars >>

\* routes/download.rs:241-391: the extractor returned; on an empty result the
\* alternate extraction; then the session is closed
extract_instagram_media_extracted ==
    /\ h_pc = "preview_extract"
    /\ x_pc = "ret"
    /\ IF x_ret.tag = "Err"
       THEN /\ error_message' = "Failed to extract media"
            /\ UNCHANGED media_items
       ELSE IF x_ret.items /= << >>
            THEN /\ media_items' = SomeItems(x_ret.items)
                 /\ UNCHANGED error_message
            ELSE \/ /\ error_message' = "Failed to extract media on retry"
                    /\ UNCHANGED media_items
                 \/ \E dom \in AltDoms :
                       LET items == AltItems(AltScript(dom)) IN
                       IF items /= << >>
                       THEN /\ media_items' = SomeItems(items)
                            /\ UNCHANGED error_message
                       ELSE /\ error_message' = "No media found in the page after retry"
                            /\ UNCHANGED media_items
    /\ Close
    /\ page_signals' = NoSignals
    /\ h_pc' = "preview_fallback"
    /\ UNCHANGED << entry, url, handler, response, video_src, attempts, content_type >>
    /\ UNCHANGED << h_log, scan_count, reel_file, poll_vals, poll_slept, use_ytdlp_first >>
    /\ UNCHANGED << folderVars, connectVars, headlessVars, fetchVars, extractVars, toolVars, batchVars >>

\* routes/download.rs:400-442: for a reel without items the headless capture;
\* then the response
extract_instagram_media_respond ==
    /\ h_pc = "preview_fallback"
    /\ IF content_type = "reel" /\ (~media_items.some \/ media_items.items = << >>)
       THEN \E e \in HeadlessEnvs :
               /\ ~e.folder_exists
               /\ hc_env' = e
               /\ hc_file' = (IF HeadlessKept(HeadlessWritten(e))
                              THEN HeadlessWritten(e) ELSE NoFile)
               /\ hc_ret' = HeadlessCapture(preview_folder_name(0), e)
               /\ hc_pc' = "ret"
               /\ IF hc_ret'.tag = "Ok" /\ hc_ret'.path /= ""
                  THEN /\ media_items' = SomeItems(<< Item(hc_ret'.path, "video") >>)
                       /\ error_message' = None
                       /\ Return("PreviewResponse success")
                  ELSE /\ Return("PreviewResponse failure")
                       /\ UNCHANGED << media_items, error_message >>
       ELSE /\ IF media_items.some
               THEN Return("PreviewResponse success")
               ELSE Return("PreviewResponse failure")
            /\ UNCHANGED << media_items, error_message, headlessVars >>
    /\ UNCHANGED << entry, url, handler, session, video_src, attempts, content_type >>
    /\ UNCHANGED << h_log, scan_count, reel_file, page_signals, poll_vals, poll_slept, use_ytdlp_first >>
    /\ UNCHANGED << folderVars, connectVars, fetchVars, extractVars, toolVars, batchVars >>

\* items of the batch a story request and a post request reach, one and the
\* other above the number of permits
StoryBatchItems == 10
PostBatchItems == 11

\* story.rs:99 / post.rs:68: a request that has extracted its items and
\* is about to download them; the story handler has closed its session
\* (story.rs:84), the post handler has not
BatchInit ==
    /\ entry \in {"handle_download", "post::download"}
    /\ IF entry = "handle_download"
       THEN /\ handler = "story::download"
            /\ h_pc = "story_batch"
            /\ url = U_STORY
            /\ session = "closed"
            /\ b_n = StoryBatchItems
            /\ h_log = << "tool_cookies", "browser", "extract", "batch" >>
            /\ permits = STORY_PERMITS
       ELSE /\ handler = "post::download"
            /\ h_pc = "post_batch"
            /\ url = U_POST
            /\ session = "open"
            /\ b_n = PostBatchItems
            /\ h_log = << "browser", "extract", "batch" >>
            /\ permits = POST_PERMITS
    /\ b_items = [i \in 1 .. b_n |-> IF i % 2 = 1 THEN Item(V_MP4, "video")
                                                  ELSE Item(I_JPG, "image")]
    /\ filenames = << >>
    /\ tasks = [i \in 1 .. b_n |-> "unspawned"]
    /\ success_count = 0
    /\ response = None
    /\ video_src = ""
    /\ attempts = 0
    /\ content_type = "none"
    /\ media_items = NoItems
    /\ error_message = None
    /\ scan_count = NoScan
    /\ reel_file = NoReelFile
    /\ page_signals = NoSignals
    /\ poll_vals = << >>
    /\ poll_slept = 0
    /\ use_ytdlp_first = None

\* the batch of a request, up to the answer of the join
BatchNext ==
    \/ story_download_spawn
    \/ story_download_task
    \/ story_download_join
    \/ post_download_spawn
    \/ post_download_acquire
    \/ post_download_task
    \/ post_download_join

HandlerNext ==
    \/ handle_download
    \/ insta_post_download
    \/ story_download_start
    \/ story_download_ytdlp
    \/ story_download_goto
    \/ story_download_extracted
    \/ story_download_spawn
    \/ story_download_task
    \/ story_download_join
    \/ post_download_start
    \/ post_download_goto
    \/ post_download_extracted
    \/ post_download_spawn
    \/ post_download_acquire
    \/ post_download_task
    \/ post_download_join
    \/ post_download_ytdlp
    \/ reel_download_start
    \/ reel_download_ytdlp
    \/ reel_download_goto
    \/ reel_download_poll
    \/ reel_download_fetch
    \/ reel_download_fallback
    \/ extract_instagram_media_start
    \/ extract_instagram_media_goto
    \/ extract_instagram_media_extracted
    \/ extract_instagram_media_respond

\* one request, with every function it calls
RequestNext ==
    \/ HandlerNext
    \/ ToolNext
    \/ ExtractNext

(***************************************************************************)
(* services/extractor.rs: create_browser_client                            *)
(***************************************************************************)
\* what an endpoint answers: it accepts the connection, or the connection
\* fails with an error
Answers == {"accepted", "connection refused", "session not created"}

\* the error of a failed connection to an endpoint
ConnectError(webdriver_url, answer) == answer \o ": " \o webdriver_url

\* extractor.rs:143-147
error_msg(e) ==
    "Failed to connect to WebDriver. Please ensure ChromeDriver is running.\nLast error: "
        \o (IF e = None THEN "Unknown error" ELSE e)

\* extractor.rs:137: last_error = Some(e)
RecordError_KeepFirst(last, e) == IF last = None THEN e ELSE last
RecordError(last, e) == e

NoSession == [tag |-> "None", url |-> None, err |-> None]

ConnectIdle ==
    /\ wd_pc = "idle"
    /\ wd_env = << >>
    /\ wd_tried = << >>
    /\ wd_last_error = None
    /\ wd_ret = NoSession

\* extractor.rs:98-105: create_browser_client is called on a host where each
\* endpoint answers in some way
ConnectInit ==
    /\ wd_pc = "loop"
    /\ wd_env \in [DOMAIN webdriver_urls -> Answers]
    /\ wd_tried = << >>
    /\ wd_last_error = None
    /\ wd_ret = NoSession

\* extractor.rs:108-140: one iteration of the loop over webdriver_urls
create_browser_client_connect ==
    /\ wd_pc = "loop"
    /\ Len(wd_tried) < Len(webdriver_urls)
    /\ LET i == Len(wd_tried) + 1
           webdriver_url == webdriver_urls[i]
       IN /\ wd_tried' = Append(wd_tried, webdriver_url)
          /\ IF wd_env[i] = "accepted"
             THEN /\ wd_ret' = [tag |-> "Ok", url |-> webdriver_url, err |-> None]
                  /\ wd_pc' = "ret"
                  /\ UNCHANGED wd_last_error
             ELSE /\ wd_last_error' =
                         RecordError(wd_last_error, ConnectError(webdriver_url, wd_env[i]))
                  /\ UNCHANGED << wd_pc, wd_ret >>
    /\ UNCHANGED wd_env
    /\ UNCHANGED << fetchVars, extractVars, toolVars, handlerVars, batchVars, folderVars,
                    headlessVars >>

\* extractor.rs:142-150: the loop has ended without a session
create_browser_client_fail ==
    /\ wd_pc = "loop"
    /\ Len(wd_tried) = Len(webdriver_urls)
    /\ wd_ret' = [tag |-> "Err", url |-> None, err |-> error_msg(wd_last_error)]
    /\ wd_pc' = "ret"
    /\ UNCHANGED << wd_env, wd_tried, wd_last_error >>
    /\ UNCHANGED << fetchVars, extractVars, toolVars, handlerVars, batchVars, folderVars,
                    headlessVars >>

ConnectNext ==
    \/ create_browser_client_connect
    \/ create_browser_client_fail

(***************************************************************************)
(* The output folders of concurrent download requests                      *)
(***************************************************************************)
\* the download requests the server handles at the same time in the model
Requests == {1, 2}
\* the seconds the clock of the model passes through
MaxClock == 2

FoldersIdle ==
    /\ clock = 0
    /\ r_pc = << >>
    /\ r_url = << >>
    /\ r_handler = << >>
    /\ r_folder = << >>
    /\ writes = {}

\* main.rs: the requests have arrived, each with some URL, at the route of
\* handle_download or at the route of post::download
FoldersInit ==
    /\ clock = 0
    /\ r_url \in [Requests -> RequestUrls]
    /\ r_handler \in [Requests -> {"handle_download", "post::download"}]
    /\ r_pc = [r \in Requests |->
                  IF r_handler[r] = "handle_download" THEN "received" ELSE "start"]
    /\ r_folder = [r \in Requests |-> None]
    /\ writes = {}

\* a second passes
clock_tick ==
    /\ clock < MaxClock
    /\ clock' = clock + 1
    /\ UNCHANGED << r_pc, r_url, r_handler, r_folder, writes >>
    /\ UNCHANGED << fetchVars, extractVars, toolVars, handlerVars, batchVars, connectVars, headlessVars >>

\* routes/download.rs:595-623: handle_download classifies the URL of request
\* r and calls the handler of its kind; insta_post::download answers at once
handle_download_dispatch ==
    /\ \E r \in Requests :
          /\ r_pc[r] = "received"
          /\ r_handler' = [r_handler EXCEPT ![r] = Dispatch(r_url[r])]
          /\ r_pc' = [r_pc EXCEPT ![r] =
                         IF Dispatch(r_url[r]) = "insta_post::download"
                         THEN "done" ELSE "start"]
    /\ UNCHANGED << clock, r_url, r_folder, writes >>
    /\ UNCHANGED << fetchVars, extractVars, toolVars, handlerVars, batchVars, connectVars, headlessVars >>

\* story.rs:22-27 / reel.rs:21-27 / post.rs:23-29: the handler of request r
\* names its folder after the second the clock shows and creates it;
\* create_dir_all is Ok when the folder exists already
download_create_folder ==
    /\ \E r \in Requests, created \in BOOLEAN :
          /\ r_pc[r] = "start"
          /\ IF created
             THEN /\ r_folder' = [r_folder EXCEPT ![r] = folder_name(r_handler[r], clock)]
                  /\ r_pc' = [r_pc EXCEPT ![r] = "created"]
             ELSE /\ r_pc' = [r_pc EXCEPT ![r] = "done"]
                  /\ UNCHANGED r_folder
    /\ UNCHANGED << clock, r_url, r_handler, writes >>
    /\ UNCHANGED << fetchVars, extractVars, toolVars, handlerVars, batchVars, connectVars, headlessVars >>

\* story.rs:103 / reel.rs:201 / post.rs:75: the first file that the handler
\* of a request writes into its folder
FirstFile(h, folder) ==
    IF h = "story::download" THEN story_filename(folder, 0, "video")
    ELSE IF h = "reel::download" THEN folder \o "/reel.mp4"
         ELSE post_filename(folder, 0, "image")

\* story.rs:108 / reel.rs:208 / post.rs:80: request r fetches into its folder
download_write_file ==
    /\ \E r \in Requests :
          /\ r_pc[r] = "created"
          /\ writes' = writes \cup {[path |-> FirstFile(r_handler[r], r_folder[r]), by |-> r]}
          /\ r_pc' = [r_pc EXCEPT ![r] = "done"]
    /\ UNCHANGED << clock, r_url, r_handler, r_folder >>
    /\ UNCHANGED << fetchVars, extractVars, toolVars, handlerVars, batchVars, connectVars, headlessVars >>

FoldersNext ==
    \/ clock_tick
    \/ handle_download_dispatch
    \/ download_create_folder
    \/ download_write_file

(***************************************************************************)
(* Specifications                                                          *)
(***************************************************************************)
\* one call of download_media_with_retry
InitFetch == FetchInit /\ ExtractIdle /\ ToolIdle /\ HandlerIdle /\ BatchIdle /\ FoldersIdle
    /\ ConnectIdle
    /\ HeadlessIdle
SpecFetch == InitFetch /\ [][FetchNext]_vars

\* one call of extract_post_media or extract_stories
InitExtract == FetchIdle /\ ExtractInit /\ ToolIdle /\ HandlerIdle /\ BatchIdle /\ FoldersIdle
    /\ ConnectIdle
    /\ HeadlessIdle
SpecExtract == InitExtract /\ [][ExtractNext]_vars

\* the caller of extract_media_from_metadata: a request for a URL of some
\* content kind, whose session is open
MetadataCaller ==
    /\ h_pc = "idle"
    /\ entry = "none"
    /\ url = None
    /\ handler = "none"
    /\ session = "open"
    /\ response = None
    /\ video_src = ""
    /\ attempts = 0
    /\ content_type \in {"reel", "post", "story"}
    /\ media_items = NoItems
    /\ error_message = None
    /\ h_log = << >>
    /\ scan_count = NoScan
    /\ reel_file = NoReelFile
    /\ page_signals = NoSignals
    /\ poll_vals = << >>
    /\ poll_slept = 0
    /\ use_ytdlp_first = None

\* one call of extract_media_from_metadata
InitMetadata == FetchIdle /\ MetadataInit /\ ToolIdle /\ MetadataCaller /\ BatchIdle /\ FoldersIdle
    /\ ConnectIdle
    /\ HeadlessIdle
SpecMetadata == InitMetadata /\ [][extract_media_from_metadata]_vars

\* one call of create_browser_client
InitConnect ==
    FetchIdle /\ ExtractIdle /\ ToolIdle /\ HandlerIdle /\ BatchIdle /\ FoldersIdle
    /\ ConnectInit
    /\ HeadlessIdle
SpecConnect == InitConnect /\ [][ConnectNext]_vars

\* one call of extract_reel_video_with_headless_chrome
InitHeadless ==
    FetchIdle /\ ExtractIdle /\ ToolIdle /\ HandlerIdle /\ BatchIdle /\ FoldersIdle
    /\ ConnectIdle
    /\ HeadlessInit
SpecHeadless == InitHeadless /\ [][HeadlessNext]_vars

\* reel.rs:36-88: a reel request at the start of its dynamic-wait loop: the
\* external tool with cookies has failed, the session is open on the page
PollTool ==
    /\ t_pc = "idle"
    /\ t_is_story = TRUE
    /\ t_args = ToolArgs(U_REEL, folder_name("reel::download", 0), "chrome", TRUE)
    /\ t_ret = RetErr("yt-dlp execution failed")
    /\ t_spawns = 1
    /\ t_probes = 0
    /\ env_ytdlp = "present"
    /\ env_which = "present"
PollCaller ==
    /\ h_pc = "reel_poll"
    /\ entry = "handle_download"
    /\ url = U_REEL
    /\ handler = "reel::download"
    /\ session = "open"
    /\ response = None
    /\ video_src = ""
    /\ attempts = 0
    /\ content_type = "none"
    /\ media_items = NoItems
    /\ error_message = None
    /\ h_log = << "tool_cookies", "browser", "goto", "poll" >>
    /\ scan_count = NoScan
    /\ reel_file = NoReelFile
    /\ page_signals = NoSignals
    /\ poll_vals = << >>
    /\ poll_slept = 0
    /\ use_ytdlp_first = None

\* the dynamic-wait loop of a reel request and what follows it; the handler
\* is a task that the runtime keeps running
InitPoll ==
    FetchIdle /\ ExtractIdle /\ PollTool /\ PollCaller /\ BatchIdle /\ FoldersIdle
    /\ ConnectIdle
    /\ HeadlessIdle
PollNext ==
    \/ reel_download_poll
    \/ reel_download_fetch
SpecPoll == InitPoll /\ [][PollNext]_vars /\ WF_vars(reel_download_poll)

\* download requests that the server handles at the same time
InitFolders ==
    FetchIdle /\ ExtractIdle /\ ToolIdle /\ HandlerIdle /\ BatchIdle /\ FoldersInit
    /\ ConnectIdle
    /\ HeadlessIdle
SpecFolders == InitFolders /\ [][FoldersNext]_vars

\* the batch of downloads of a story request and of a post request
InitBatch == FetchIdle /\ ExtractIdle /\ ToolIdle /\ BatchInit /\ FoldersIdle
    /\ ConnectIdle
    /\ HeadlessIdle
SpecBatch == InitBatch /\ [][BatchNext]_vars

\* the story batch (story.rs:99-114) under the scheduling of the runtime: the spawning loop and the
\* join go on when they can, a spawned task is polled until it ends, the
\* semaphore wakes a waiting task when a permit is free, and every fetch
\* returns (download_media_with_retry makes at most MAX_RETRY attempts)
BatchFairness ==
    /\ WF_vars(story_download_spawn)
    /\ WF_vars(story_download_task)
    /\ WF_vars(story_download_join)
InitStoryBatch == InitBatch /\ handler = "story::download"
StoryBatchNext ==
    \/ story_download_spawn
    \/ story_download_task
    \/ story_download_join
SpecStoryBatch == InitStoryBatch /\ [][StoryBatchNext]_vars /\ BatchFairness

\* one request to the server
InitRequest == FetchIdle /\ ExtractIdle /\ ToolInit /\ HandlerInit /\ BatchIdle /\ FoldersIdle
    /\ ConnectIdle
    /\ HeadlessIdle
SpecRequest == InitRequest /\ [][RequestNext]_vars

(***************************************************************************)
(* Properties of the verified fetcher                                      *)
(***************************************************************************)
GoodFile ==
    /\ file > 0
    /\ content_length /= NoLen => file = content_length

\* C1: download_media_with_retry calls the single-attempt download at most 5
\* times; the error after the 5th failed attempt carries the error that 5th
\* attempt returned; an attempt that returns Ok is the last one and the call
\* returns Ok.
C1_AtMostFiveAttempts ==
    /\ f_calls <= 5
    /\ f_result.err = "Failed after retries" =>
          /\ f_calls = 5
          /\ retry_count = 5
          /\ c_ret.tag = "Err"
          /\ f_result.cause = c_ret.err
    /\ c_ret.tag = "Ok" =>
          /\ f_pc \in {"match", "done"}
          /\ f_calls = retry_count + 1
          /\ f_pc = "done" => f_result.tag = "Ok"
    /\ f_result.tag = "Ok" => c_ret.tag = "Ok"

\* the 5th attempt failed and the call returned the exhaustion error
C1_Witness ==
    /\ f_pc = "done"
    /\ f_result.err = "Failed after retries"
    /\ f_calls = 5
    /\ f_result.cause = "File size mismatch"

\* C2: whenever the fetcher returns success the destination file is not empty
\* and has the declared length when one was declared; an attempt that leaves
\* an empty or wrong-sized file never returns Ok.
C2_SuccessMeansVerifiedFile ==
    /\ f_result.tag = "Ok" => GoodFile
    /\ (f_pc \in {"match", "done"} /\ c_ret.tag = "Ok") => GoodFile

\* success with a declared length, after an attempt that failed verification
C2_Witness ==
    /\ f_result.tag = "Ok"
    /\ content_length /= NoLen
    /\ last_error \in {"Downloaded file is empty", "File size mismatch"}

\* C17: the fetcher sleeps only before a next attempt: never before the
\* first attempt, every sleep is followed by another attempt, and after the
\* 5th failed attempt the error is returned without a further sleep.
C17_SleepOnlyBeforeNextAttempt ==
    /\ f_calls = 0 => f_sleeps = 0
    /\ f_pc = "sleep" => RetryGuard(retry_count)
    /\ (f_pc = "done" /\ f_calls > 0) => f_sleeps = f_calls - 1

\* C18: the pre-jitter wait before the k-th retry is 300 * 2^(k-1) ms (300 ms
\* before the first retry), and the jitter added is from 0 to 30% of it.
C18_BackoffFromBase ==
    f_pc = "sleep" =>
        /\ backoff = BASE_BACKOFF_MS * (2 ^ (retry_count - 1))
        /\ sleep_time - backoff \in 0 .. ((backoff * 3) \div 10)

\* C19: every attempt that fails, with whatever error, is counted against
\* the 5 attempts and is retried while attempts remain: the failures counted
\* are the attempts made, the failure's error is kept as the last error, and
\* no attempt's error reaches the caller before the 5th attempt has failed.
C19_EveryFailureCounts ==
    /\ retry_count <= MAX_RETRY
    /\ f_pc \in {"sleep", "loop"} => retry_count = f_calls
    /\ f_pc \in {"send", "create", "stream", "verify", "match"} => retry_count = f_calls - 1
    /\ f_pc = "sleep" => c_ret.tag = "Err" /\ last_error = c_ret.err
    /\ (f_pc = "done" /\ f_calls > 0 /\ f_result.tag = "Err") =>
          /\ f_calls = MAX_RETRY
          /\ retry_count = MAX_RETRY
          /\ f_result.err = "Failed after retries"
    /\ (f_pc = "done" /\ f_result.tag = "Ok") => c_ret.tag = "Ok"

\* four failures of four kinds were each counted and retried; the 5th
\* attempt, after a stream error, succeeded
C19_Witness ==
    /\ f_pc = "done"
    /\ f_result.tag = "Ok"
    /\ f_calls = 5
    /\ retry_count = 4
    /\ last_error = "Error while downloading file"

(***************************************************************************)
(* Properties of the content extractor                                     *)
(***************************************************************************)
NonEmptyOk(r) == r.tag = "Ok" /\ r.items /= << >>

\* C8: the advance loop of the story strategy stops when the next-story
\* control is gone or after 20 stories: on a page of n stories it clicks the
\* control at most 19 * n times (the clicks a loop that stops after 20
\* collected stories can need when every round over the page collects one),
\* and an attempt that reaches the cap returns its 20 items and no error.
C8_AdvanceLoopBounded ==
    /\ nav <= (max_stories - 1) * Len(p_stories)
    /\ (x_pc = "once_ret" /\ story_count = max_stories) =>
          x_once.tag = "Ok" /\ Len(x_once.items) = 20

\* C9: extract_post_media and extract_stories call their strategy at most 3
\* times, pause 2 seconds between two calls, return at the first non-empty
\* result, and return an empty or failed result only from the 3rd call.
C9_ThreeAttemptsEmptyRetried ==
    /\ x_calls <= 3
    /\ x_paused = 2 * attempt
    /\ x_pc /= "call" => x_calls = attempt + 1
    /\ x_pc = "pause" => ~NonEmptyOk(x_once) /\ x_calls < 3
    /\ x_pc = "ret" =>
          /\ x_ret = x_once
          /\ NonEmptyOk(x_ret) \/ x_calls = 3

\* the 3rd attempt of extract_stories was empty too, and Ok(empty) is returned
C9_Witness ==
    /\ x_pc = "ret"
    /\ x_fn = "stories"
    /\ x_ret = XOk(<< >>)
    /\ x_calls = 3
    /\ x_paused = 4

\* C20: when the first in-page check of the post/reel DOM strategy finds a
\* qualifying video (present, not blob:, ".mp4" at the end or right before a
\* "?"), extract_post_media_once returns at once that one video item and
\* never executes the post script.
C20_QualifyingVideoReturnsAtOnce ==
    (x_fn = "post" /\ x_pc \in {"p_post", "once_ret"} /\ reel_media /= << >>) =>
        /\ x_pc = "once_ret"
        /\ x_once = XOk(reel_media)
        /\ Len(reel_media) = 1
        /\ reel_media[1].type = "video"
        /\ "post_script" \notin x_scripts

\* extract_media_from_metadata has returned a sequence of items
MetadataReturned == x_fn = "metadata" /\ x_pc = "ret" /\ x_ret.tag = "Ok"

C29_MetadataRetried ==
    (x_fn = "metadata" /\ x_pc = "ret" /\ x_ret.items = << >>) =>
        /\ x_calls = MAX_EXTRACTION_RETRIES + 1
        /\ x_paused = MAX_EXTRACTION_RETRIES * PAUSE_SECS

\* C25: create_browser_client tries the endpoints in the order of
\* webdriver_urls; it returns the session of the first endpoint that accepts
\* and has tried none after it; when all four fail it returns an error that
\* carries the error of the last endpoint.
C25_FirstEndpointThatAccepts ==
    /\ webdriver_urls = << "http://localhost:9515", "http://localhost:4444",
                           "http://127.0.0.1:9515", "http://127.0.0.1:4444" >>
    /\ Len(wd_tried) <= Len(webdriver_urls)
    /\ \A i \in DOMAIN wd_tried :
           /\ wd_tried[i] = webdriver_urls[i]
           /\ i < Len(wd_tried) => wd_env[i] /= "accepted"
    /\ (wd_pc = "ret" /\ wd_ret.tag = "Ok") =>
           /\ wd_env[Len(wd_tried)] = "accepted"
           /\ wd_ret.url = webdriver_urls[Len(wd_tried)]
    /\ (wd_pc = "ret" /\ wd_ret.tag = "Err") =>
           /\ Len(wd_tried) = 4
           /\ wd_env[4] /= "accepted"
           /\ wd_ret.err = error_msg(ConnectError("http://127.0.0.1:4444", wd_env[4]))
    /\ wd_pc = "ret" => (wd_ret.tag = "Ok" <=> \E i \in DOMAIN wd_env : wd_env[i] = "accepted")

\* all four endpoints failed, the first and the last in different ways
C25_Witness ==
    /\ wd_pc = "ret"
    /\ wd_ret.tag = "Err"
    /\ wd_env[1] = "connection refused"
    /\ wd_env[4] = "session not created"

(***************************************************************************)
(* Properties of the request handlers                                      *)
(***************************************************************************)
\* C3: no media item that an extraction path produces has a URL that begins
\* with "blob:": not the items extract_post_media / extract_stories return,
\* not the URL the reel dynamic-wait loop settles on, not the items of the
\* preview (those of its alternate JSON-LD / Open Graph extraction included).
C3_NoBlobItem ==
    /\ \A i \in DOMAIN x_ret.items : ~IsBlob(x_ret.items[i].url)
    /\ h_pc \in {"reel_fetch", "reel_fallback", "done"} => ~IsBlob(video_src)
    /\ \A i \in DOMAIN media_items.items : ~IsBlob(media_items.items[i].url)

\* C4: when a handler returns, a browser-automation session it opened has
\* been closed, on every exit branch of the post, story, reel and preview flows.
C4_SessionClosedAtReturn == h_pc = "done" => session /= "open"

\* the orchestration a handler of handle_download stands for
Orchestration(h) ==
    IF h = "story::download" THEN "story"
    ELSE IF h = "reel::download" THEN "reel" ELSE "post"

\* C7: handle_download sends a URL containing "/stories/" to the story
\* orchestration, otherwise a URL containing "/reel/" or "/reels/" to the
\* reel orchestration, and every other URL to the post orchestration.
C7_DispatchByPattern ==
    (entry = "handle_download" /\ handler /= "none") =>
        Orchestration(handler) =
            IF Contains(url, "/stories/") THEN "story"
            ELSE IF Contains(url, "/reel/") \/ Contains(url, "/reels/") THEN "reel"
                 ELSE "post"

\* C10: when yt-dlp is absent from the host, download_with_ytdlp returns the
\* error that gives installation guidance, and has spawned the tool once.
C10_AbsentToolGivesGuidance ==
    (t_pc = "ret" /\ env_ytdlp = "absent") =>
        /\ t_ret = RetErr(NOT_INSTALLED)
        /\ t_spawns = 1

\* positions of the log at which the request attempted one of the strategies
Tried(strategies) == { i \in DOMAIN h_log : h_log[i] \in strategies }

ToolAttempts == Tried({"tool_cookies", "tool"})

\* C11: within one download request, an attempt of the external tool comes
\* before every attempt to open a browser session when the request is a reel
\* or a story request, and an attempt to open a browser session comes before
\* every attempt of the external tool when it is a post request; the tool
\* runs, and a session exists, only after the attempt that the log records
C11_ToolBeforeBrowserExceptPost ==
    /\ handler \in {"story::download", "reel::download"} =>
           \A i \in Tried({"browser"}) : \E j \in ToolAttempts : j < i
    /\ handler = "post::download" =>
           \A i \in ToolAttempts : \E j \in Tried({"browser"}) : j < i
    /\ handler \in {"story::download", "reel::download", "post::download"} =>
           /\ t_pc /= "idle" => ToolAttempts /= {}
           /\ session /= "none" => Tried({"browser"}) /= {}

\* a reel request that tried the tool, then the browser, has returned
C11_Witness ==
    /\ h_pc = "done"
    /\ handler = "reel::download"
    /\ Tried({"browser"}) /= {}
    /\ h_log[1] = "tool_cookies"

\* the downloads of the batch that succeeded
Succeeded == { i \in DOMAIN tasks : tasks[i] = "ok" }

\* the content extractor has returned to the handler that called it
Extracted ==
    Tried({"extract"}) /= {} /\ x_pc = "ret" /\ h_pc \notin {"post_extract", "story_extract"}

ReelLogs ==
    { << >>,
      << "tool_cookies" >>,
      << "tool_cookies", "browser", "tool" >>,
      << "tool_cookies", "browser", "goto", "tool" >>,
      << "tool_cookies", "browser", "goto", "poll", "tool" >>,
      << "tool_cookies", "browser", "goto", "poll", "fetch" >>,
      << "tool_cookies", "browser", "goto", "poll", "fetch", "tool" >> }

C14_AcceptedOnlyAboveThreshold ==
    (handler = "reel::download" /\ reel_file /= NoReelFile) =>
        IF reel_file.size > THUMBNAIL_BYTES
        THEN /\ h_pc = "done"
             /\ response = "Download complete"
             /\ Tried({"tool"}) = {}
        ELSE /\ Tried({"tool"}) /= {}
             /\ ~t_is_story

\* C15: a story request starts with the external tool with cookies, and
\* succeeds at that stage only when the scan of the folder counted at least
\* one story_ file; when the tool failed or the scan counted none, the browser
\* is tried, the extraction of the stories runs and the batch is over its
\* items. No extracted item, or no successful download, ends the request
\* with a failure, and the tool is never attempted after the browser.
C15_StoryFallback ==
    handler = "story::download" =>
        /\ h_log /= << >> => h_log[1] = "tool_cookies"
        /\ ToolAttempts \subseteq {1}
        /\ ToolAttempts /= {} => t_is_story
        /\ scan_count > 0 =>
               /\ t_ret.tag = "Ok"
               /\ h_pc = "done"
               /\ response = "Downloaded stories with yt-dlp"
               /\ h_log = << "tool_cookies" >>
               /\ session = "none"
        /\ (h_pc = "done" /\ response = "Downloaded stories with yt-dlp") => scan_count > 0
        /\ (h_pc = "done" /\ h_log = << "tool_cookies" >>) => scan_count > 0
        /\ Tried({"browser"}) /= {} =>
               (t_pc = "idle" /\ (t_ret.tag = "Err" \/ scan_count \in {NoScan, 0}))
        /\ Tried({"batch"}) /= {} =>
               /\ Extracted
               /\ x_fn = "stories"
               /\ x_ret.tag = "Ok"
               /\ x_ret.items /= << >>
               /\ b_n = Len(x_ret.items)
        /\ (h_pc = "done" /\ Extracted /\ x_ret.tag = "Err") =>
               response = "Failed to extract stories"
        /\ (h_pc = "done" /\ Extracted /\ x_ret.tag = "Ok" /\ x_ret.items = << >>) =>
               /\ response = "No stories found"
               /\ Tried({"batch"}) = {}
        /\ (h_pc = "done" /\ Extracted /\ x_ret.tag = "Ok" /\ x_ret.items /= << >>) =>
               \/ Tried({"batch"}) = {} /\ response = "Failed to create HTTP client"
               \/ /\ Tried({"batch"}) /= {}
                  /\ Finished = DOMAIN tasks
                  /\ success_count = Cardinality(Succeeded)
                  /\ response = IF Succeeded = {}
                                THEN "Failed to download any stories"
                                ELSE "Downloaded stories"

\* the tool ran without error and left no story_ file; the browser found
\* stories, and none of their downloads succeeded
C15_Witness ==
    /\ h_pc = "done"
    /\ handler = "story::download"
    /\ t_ret.tag = "Ok"
    /\ scan_count = 0
    /\ h_log = << "tool_cookies", "browser", "extract", "batch" >>
    /\ response = "Failed to download any stories"

\* the answers of the download handlers that report a download
Successes ==
    { "Downloaded stories with yt-dlp", "Downloaded stories",
      "Reel downloaded with yt-dlp", "Download complete", "Downloaded media items" }

\* C16: a download request that answers with a failure, other than the
\* failure to create its folder, has tried the last fallback of its kind:
\* the tool without cookies for a reel, the browser for a story, and for a
\* post the tool, unless the extraction of the post returned an error.
C16_FailureOnlyAfterLastFallback ==
    (h_pc = "done" /\ response \notin Successes /\ response /= "Failed to create folder") =>
        /\ handler = "reel::download" => Tried({"tool"}) /= {}
        /\ handler = "story::download" => Tried({"browser"}) /= {}
        /\ handler = "post::download" =>
               (ToolAttempts /= {} \/ response = "Failed to extract media")

\* C23: in a story or post request no task of the batch exists while the
\* extractor is running; once the batch has started the extractor has
\* returned, its value is the value of its last attempt, and the items of
\* the batch, one task each, are the items it returned.
C23_BatchIsExtractorResult ==
    handler \in {"story::download", "post::download"} =>
        /\ x_pc \notin {"idle", "ret"} => (tasks = << >> /\ Tried({"batch"}) = {})
        /\ Tried({"batch"}) = {} => (tasks = << >> /\ filenames = << >>)
        /\ Tried({"batch"}) /= {} =>
               /\ Extracted
               /\ x_ret = x_once
               /\ x_ret.tag = "Ok"
               /\ x_calls = attempt + 1
               /\ b_items = x_ret.items
               /\ DOMAIN tasks = DOMAIN x_ret.items

\* the extractor returned two items at its third attempt and a fetch of
\* the batch is in flight
C23_Witness ==
    /\ handler = "story::download"
    /\ x_calls = 3
    /\ Len(x_ret.items) = 2
    /\ InFlight /= {}

\* C24: no two download requests use the same output folder, and no file
\* is written by two requests.
C24_FreshFolderPerRequest ==
    \A r1, r2 \in DOMAIN r_folder :
        (r1 /= r2 /\ r_folder[r1] /= None /\ r_folder[r2] /= None) =>
            /\ r_folder[r1] /= r_folder[r2]
            /\ \A w1, w2 \in writes : (w1.by = r1 /\ w2.by = r2) => w1.path /= w2.path

\* C22: the files that the tasks of one batch write are pairwise distinct,
\* so no two tasks whose fetch is in flight write the same file; the name is
\* the folder, then story_ and the index plus one padded to three digits of a
\* story, or media_ and the index plus one of a post, then mp4 for a video
\* and jpg for anything else.
C22_DistinctDestinations ==
    /\ \A i, j \in DOMAIN filenames : i /= j => filenames[i] /= filenames[j]
    /\ \A i \in DOMAIN tasks : tasks[i] /= "unspawned" <=> i \in DOMAIN filenames
    /\ (handler = "story::download" /\ Len(filenames) >= 10) =>
           /\ filenames[1] = "insta_stories_0/story_001.mp4"
           /\ filenames[10] = "insta_stories_0/story_010.jpg"
    /\ (handler = "post::download" /\ Len(filenames) >= 11) =>
           /\ filenames[2] = "insta_post_0/media_2.jpg"
           /\ filenames[11] = "insta_post_0/media_11.mp4"

\* two fetches of a story batch are in flight while an earlier and a later
\* one have ended
C22_Witness ==
    /\ handler = "story::download"
    /\ {2, 10} \subseteq InFlight
    /\ tasks[1] = "running"
    /\ tasks[3] = "ok"
    /\ tasks[4] = "err"

(***************************************************************************)
(* Properties of the batch of downloads                                    *)
(***************************************************************************)
\* the number of permits of the handler's semaphore
Limit == IF handler = "story::download" THEN STORY_PERMITS ELSE POST_PERMITS
\* the join has returned
BatchReturned == h_pc \in {"done", "post_ytdlp_allfailed"}

\* C5: at every instant at most L fetches of a batch are in flight (8 for
\* stories, 10 for posts), a fetch is in flight only while it holds one of the
\* L permits, and when the batch returns each of the N items has its one
\* outcome, success or failure.
C5_AtMostLimitInFlight ==
    /\ Cardinality(InFlight) <= Limit
    /\ permits + Cardinality(InFlight) = Limit
    /\ Len(tasks) = b_n
    /\ BatchReturned => \A i \in 1 .. b_n : tasks[i] \in {"ok", "err"}

\* 10 story items, limit 8: 8 fetches in flight, the 10th item waits for a
\* permit, the 1st has its outcome
C5_Witness ==
    /\ handler = "story::download"
    /\ b_n = 10
    /\ Cardinality(InFlight) = 8
    /\ tasks[1] = "err"
    /\ tasks[10] = "unspawned"

\* C6: the failure of an item's fetch neither cancels nor skips a sibling:
\* while any item is unfinished the batch does not return, an item that failed
\* leaves the others to reach their own outcome, and the success count is
\* the number of items whose fetch returned Ok.
C6_FailureLeavesSiblings ==
    /\ (\E i \in DOMAIN tasks : tasks[i] \notin {"ok", "err"}) => ~BatchReturned
    /\ BatchReturned => success_count = Cardinality({ i \in DOMAIN tasks : tasks[i] = "ok" })
    /\ ~BatchReturned => success_count = 0

\* the post batch returned: the 1st item failed, the other 10 succeeded
C6_Witness ==
    /\ handler = "post::download"
    /\ h_pc = "done"
    /\ tasks[1] = "err"
    /\ \A i \in 2 .. 11 : i \in DOMAIN tasks /\ tasks[i] = "ok"
    /\ success_count = 10

\* the cookies of the tool in a state of a request
C26_CookiesState ==
    /\ t_args /= << >> =>
           ((\E i \in DOMAIN t_args : t_args[i] = "--cookies-from-browser") <=> t_is_story)
    /\ t_is_story =>
           /\ handler \in {"story::download", "reel::download"}
           /\ ToolAttempts = {1}
           /\ h_log[1] = "tool_cookies"
    /\ (handler \in {"story::download", "reel::download"} /\ ToolAttempts = {1}) =>
           t_is_story
    /\ Tried({"tool_cookies"}) \subseteq {1}
    /\ handler = "post::download" => Tried({"tool_cookies"}) = {}
    /\ handler = "reel::download" => Cardinality(ToolAttempts) <= 2
\* a step that adds the second tool attempt of a reel request
C26_SecondAfterFailure ==
    (handler = "reel::download" /\ Cardinality(ToolAttempts') > Cardinality(ToolAttempts)
        /\ ToolAttempts /= {}) =>
        /\ t_is_story
        /\ t_pc \in {"idle", "ret"}
        /\ t_ret.tag = "Err"
        /\ ~t_is_story'
\* C26: yt-dlp is run with --cookies-from-browser exactly when the is_story
\* argument of the call is true; that argument is true only for the first
\* tool attempt of a story or reel request; the tool attempts of a post
\* request and the fallback attempt of a reel request run without cookies;
\* a reel request runs the tool at most twice, the second time only after
\* the first one returned an error.
C26_CookiesOnlyFirstStoryOrReelAttempt ==
    [](C26_CookiesState) /\ [][C26_SecondAfterFailure]_vars

\* a reel request whose fallback attempt has run the tool without cookies
C26_Witness ==
    /\ handler = "reel::download"
    /\ Cardinality(ToolAttempts) = 2
    /\ t_pc = "ret"
    /\ t_args /= << >>
    /\ \A i \in DOMAIN t_args : t_args[i] /= "--cookies-from-browser"

\* the requests that handle_download has classified
Classified == { r \in DOMAIN r_handler : r_handler[r] \in
                  {"story::download", "reel::download", "insta_post::download"} }
PostFallbackPlace ==
    IF Tried({"batch"}) /= {} THEN "post_ytdlp_allfailed"
    ELSE IF Tried({"extract"}) /= {} THEN "post_ytdlp_empty"
         ELSE "post_ytdlp_nobrowser"

\* C28: a post request that has ended after its external-tool fallback
\* failed answers with a text that it would not have answered had the
\* fallback succeeded, and that is not an answer of success.
C28_ExhaustionIsReported ==
    (handler = "post::download" /\ h_pc = "done" /\ ToolAttempts /= {}
        /\ t_ret.tag = "Err") =>
        /\ response /= PostFallbackResponse(PostFallbackPlace, RetOk)
        /\ response \notin Successes

\* C30: in the preview, once the strategy is chosen, a reel page that shows
\* any of the three signals of a login wall is read by the metadata
\* extractor; a story page by the story extractor; every other page by
\* the post extractor.
C30_LoginWallSelectsMetadata ==
    (entry = "preview_handler" /\ h_pc = "preview_extract") =>
        x_fn = IF content_type = "reel"
                  /\ (page_signals.callToAction \/ page_signals.restricted
                         \/ page_signals.noMedia)
               THEN "metadata"
               ELSE IF content_type = "story" THEN "stories" ELSE "post"

\* C31: every item that extract_media_from_metadata returns is the content of
\* a meta tag or a field of the JSON-LD block of the page, and on a page that
\* has an og:image meta tag and a JSON-LD block with an image and no video,
\* the images of both are returned.
C31_MetaTagsAndJsonLdOnly ==
    MetadataReturned =>
        /\ \A i \in DOMAIN x_ret.items :
              x_ret.items[i].url \in
                  { meta_dom.ogImage, meta_dom.ogVideo, meta_dom.ogVideoUrl,
                    meta_dom.ogVideoSecureUrl, meta_dom.ldContent, meta_dom.ldVideo,
                    meta_dom.ldImage, meta_dom.ldThumbnail }
        /\ (meta_dom.ogImage /= "" /\ meta_dom.ldImage /= ""
               /\ MetaVideos(MetaRest(MetaOgVideos(meta_dom), meta_dom)) = << >>) =>
              {meta_dom.ogImage, meta_dom.ldImage}
                  \subseteq { x_ret.items[i].url : i \in DOMAIN x_ret.items }

\* C32: in the preview the headless capture runs only for a reel, once the
\* session is closed or was never opened and the extraction over the session
\* gave no item; and when its script finds a link and the body fetched from
\* the first link is above THUMBNAIL_BYTES, the response is a success with
\* one video item, whose url is the path of the saved file.
C32_HeadlessCaptureAnswersPreview ==
    (entry = "preview_handler" /\ hc_pc /= "idle") =>
        /\ content_type = "reel"
        /\ h_pc = "done"
        /\ session /= "open"
        /\ hc_ret.path = "" => (~media_items.some \/ media_items.items = << >>)
        /\ (hc_env.launched /\ getVideoLinks(hc_env.page) /= << >> /\ hc_env.fetched
               /\ hc_env.len > THUMBNAIL_BYTES) =>
              /\ response = "PreviewResponse success"
              /\ media_items =
                     SomeItems(<< Item(preview_folder_name(0) \o "/reel_video.mp4", "video") >>)

\* C40: extract_reel_video_with_headless_chrome returns a path only when the
\* file was written and is larger than THUMBNAIL_BYTES bytes, and the file is
\* then the body; a body of THUMBNAIL_BYTES bytes or fewer that was written
\* is removed and no path is returned; when the fetch or the write fails the
\* function returns Ok without a path.
C40_PathOnlyForLargeWrittenFile ==
    /\ hc_pc = "written" => hc_file = HeadlessWritten(hc_env)
    /\ hc_pc = "ret" =>
          /\ hc_ret = HeadlessCapture(preview_folder_name(0), hc_env)
          /\ hc_ret.path /= "" =>
                /\ hc_ret.tag = "Ok"
                /\ hc_env.written
                /\ hc_file = hc_env.len
                /\ hc_file > 200000
          /\ hc_ret.path = "" => hc_file = NoFile
          /\ (hc_env.launched /\ hc_env.len <= 200000) =>
                (hc_file = NoFile /\ hc_ret = [tag |-> "Ok", path |-> ""])
          /\ (hc_env.launched /\ (~hc_env.fetched \/ ~hc_env.written)) =>
                hc_ret = [tag |-> "Ok", path |-> ""]

\* a body of exactly THUMBNAIL_BYTES bytes was written, and the file is gone
\* when the function returns
C40_Witness ==
    /\ hc_pc = "ret"
    /\ hc_env.launched /\ hc_env.fetched /\ hc_env.written
    /\ getVideoLinks(hc_env.page) = << V_MP4, V_MP4Q >>
    /\ hc_env.len = THUMBNAIL_BYTES
    /\ hc_file = NoFile
    /\ hc_ret = [tag |-> "Ok", path |-> ""]

\* the dynamic-wait loop in a state of a reel request
C33_PollState ==
    handler = "reel::download" =>
        /\ attempts <= 20
        /\ poll_slept = 500 * attempts
        /\ ~IsBlob(video_src)
        /\ h_pc = "reel_poll" =>
               /\ video_src = ""
               /\ \A k \in DOMAIN poll_vals : ~PollAccept(poll_vals[k])
        /\ h_pc = "reel_fetch" =>
               IF video_src = ""
               THEN /\ attempts = 20
                    /\ \A k \in DOMAIN poll_vals : ~PollAccept(poll_vals[k])
               ELSE /\ attempts < 20
                    /\ Len(poll_vals) = 4
                    /\ \E k \in 1 .. 4 :
                          /\ video_src = poll_vals[k]
                          /\ \A j \in 1 .. (k - 1) :
                                 poll_vals[j] = "" \/ IsBlob(poll_vals[j])
        /\ Tried({"fetch"}) /= {} => (video_src /= "" /\ ~IsBlob(video_src))
\* a poll that does not end the loop
C33_PollStep ==
    (h_pc = "reel_poll" /\ h_pc' = "reel_poll") =>
        /\ attempts' = attempts + 1
        /\ poll_slept' = poll_slept + 500
\* C33: the dynamic-wait loop of a reel request polls at most 20 times and
\* sleeps 500 ms after each poll that found nothing; a poll takes the value
\* of the first of video src, source src, JSON-LD and og:video that is set
\* and is not a blob URL, and ends the loop; the loop ends, and the URL that
\* goes to the fetcher is set and is not a blob URL.
C33_PollLoopEnds ==
    /\ [](C33_PollState)
    /\ [][C33_PollStep]_vars
    /\ (h_pc = "reel_poll") ~> (h_pc /= "reel_poll")

\* the 20th poll found a URL in og:video only, after a blob video src
C33_Witness ==
    /\ h_pc = "reel_fetch"
    /\ attempts = 19
    /\ poll_slept = 9500
    /\ poll_vals = << V_BLOB, "", "", V_OG >>
    /\ video_src = V_OG

\* C34: a preview response is a success exactly when it has media items, and
\* then it has at least one and no error; a response that is not a success
\* has no media items and has an error.
C34_ItemsOrError ==
    (entry = "preview_handler" /\ h_pc = "done") =>
        /\ response \in {"PreviewResponse success", "PreviewResponse failure"}
        /\ response = "PreviewResponse success" <=>
               (media_items.some /\ media_items.items /= << >>)
        /\ response = "PreviewResponse success" => error_message = None
        /\ response = "PreviewResponse failure" =>
               /\ media_items = NoItems
               /\ error_message /= None

\* the extractor found nothing and the alternate script found two items
C34_Witness ==
    /\ entry = "preview_handler"
    /\ h_pc = "done"
    /\ x_ret = XOk(<< >>)
    /\ response = "PreviewResponse success"
    /\ Len(media_items.items) = 2
    /\ error_message = None


\* C35: the download flow and the preview flow give a URL the same content
\* kind: the orchestration that handle_download chose for the request's URL
\* is the kind that the preview's URL detection gives to that URL, the kind
\* that the preview chose is the one handle_download's tests give, and the
\* preview rejects no URL as unsupported, since handle_download accepts all.
C35_SameKindInBothFlows ==
    /\ (entry = "handle_download" /\ handler /= "none") =>
           Orchestration(handler) = PreviewType(url)
    /\ (entry = "preview_handler" /\ h_pc /= "entry") =>
           /\ PreviewType(url) /= "unsupported"
           /\ content_type = Orchestration(Dispatch(url))


\* extractor.rs:166 / 486: the error after the loop of the outer retry
ALL_FAILED == "All extraction attempts failed"

C36_RetryState ==
    /\ x_fn \in {"post", "stories"} /\ x_pc = "pause" =>
          ~NonEmptyOk(x_once) /\ attempt < MAX_EXTRACTION_RETRIES
    /\ x_fn \in {"post", "stories"} /\ x_pc = "ret" =>
          /\ x_ret /= XErr(ALL_FAILED)
          /\ ~NonEmptyOk(x_ret) => x_calls = MAX_EXTRACTION_RETRIES + 1 /\ x_ret = x_once

C36_RetryStep ==
    (x_fn \in {"post", "stories"} /\ x_pc = "once_ret" /\ x_pc' /= "once_ret") =>
        IF ~NonEmptyOk(x_once) /\ attempt < MAX_EXTRACTION_RETRIES
        THEN x_pc' = "pause" /\ x_ret' = XNone
        ELSE x_pc' = "ret" /\ x_ret' = x_once

\* C36: the outer retry of extract_post_media and extract_stories treats a
\* failed attempt like an empty one: while the attempt is not the 3rd, either
\* leads to the pause and nothing is returned; the 3rd attempt's own result
\* is returned unchanged, Ok(empty) or its error; and the error "All
\* extraction attempts failed" is never returned.
C36_LastResultReturned == [](C36_RetryState) /\ [][C36_RetryStep]_vars

\* the 3rd attempt of extract_post_media failed, and its error is returned
C36_Witness ==
    /\ x_fn = "post"
    /\ x_pc = "ret"
    /\ x_calls = MAX_EXTRACTION_RETRIES + 1
    /\ x_ret.tag = "Err"
    /\ x_ret = x_once


\* C37: in an attempt of the story strategy the story counter is the number
\* of collected items once one is collected, and is never above 20; when the
\* first extraction of the current story gives nothing usable, the attempt
\* clicks no next-story control and returns the empty sequence.
C37_CounterIsCollected ==
    x_fn = "stories" =>
        /\ story_count <= max_stories
        /\ result /= << >> => story_count = Len(result)
        /\ x_pc \in {"s_next", "s_extract"} =>
              /\ result /= << >>
              /\ "extract_script" \in x_scripts
        /\ (x_pc = "once_ret" /\ x_once.tag = "Ok") =>
              /\ x_once.items = result
              /\ result = << >> => nav = 0 /\ x_scripts = {"extract_script"}

\* an attempt collected 20 stories and returns them
C37_Witness ==
    /\ x_fn = "stories"
    /\ x_pc = "once_ret"
    /\ story_count = max_stories
    /\ x_once.tag = "Ok"
    /\ Len(x_once.items) = max_stories


C38_OptionState ==
    /\ use_ytdlp_first \in YtdlpFirstOptions
    /\ use_ytdlp_first /= None => handler = "reel::download"
    /\ (handler = "reel::download" /\ h_log /= << >>) => h_log[1] = "tool_cookies"
    /\ (handler = "reel::download" /\ h_pc = "done") => h_log \in ReelLogs

\* a step of the reel request with the option it carries is a step, between
\* the same values of every other variable, of the request with any other
\* value of the option, and the request does not change the option
C38_OptionStep ==
    /\ h_pc /= "entry" => use_ytdlp_first' = use_ytdlp_first
    /\ reel_download_start_with(use_ytdlp_first) =>
           \A option \in YtdlpFirstOptions : reel_download_start_with(option)

Unfinished == DOMAIN tasks \ Finished

\* task i is spawned or to be spawned, and has no permit yet
WaitsForPermit(i) ==
    IF i \in DOMAIN tasks THEN tasks[i] \in {"unspawned", "waiting"} ELSE FALSE
\* task i has had a permit
GotPermit(i) ==
    IF i \in DOMAIN tasks THEN tasks[i] \in {"running", "ok", "err"} ELSE FALSE

C39_PermitState ==
    /\ permits \in 0 .. Limit
    /\ Limit - permits = Cardinality(InFlight)
    /\ Limit - permits <= Cardinality(Unfinished)
    /\ BatchReturned => permits = Limit /\ Unfinished = {}

C39_PermitStep ==
    \A i \in DOMAIN tasks :
        (tasks[i] = "running" /\ tasks'[i] /= "running") =>
            /\ tasks'[i] \in {"ok", "err"}
            /\ permits' = permits + 1

\* C39: in the batch every permit a task acquired is released when the
\* task's fetch ends, with Ok or with Err: the permits held are those of the
\* fetches in flight and never more than the unfinished tasks; no task waits
\* for a permit forever; and when every fetch has ended the join returns
\* with all the permits of the semaphore available.
C39_PermitsReleased ==
    /\ [](C39_PermitState)
    /\ [][C39_PermitStep]_vars
    /\ \A i \in {1, STORY_PERMITS + 1, StoryBatchItems} :
          WaitsForPermit(i) ~> GotPermit(i)
    /\ <>(BatchReturned /\ permits = Limit)

\* the story batch returned: the fetches of the 1st and the 9th item failed,
\* and the 8 permits are available
C39_Witness ==
    /\ handler = "story::download"
    /\ BatchReturned
    /\ b_n = 10
    /\ tasks[1] = "err"
    /\ tasks[9] = "err"
    /\ tasks[10] = "ok"
    /\ permits = STORY_PERMITS

====
